---- MODULE Spec2Model ----
(***************************************************************************)
(* A model of the AI-COO backend (RonaldReddy024/ai-coo).                  *)
(*                                                                         *)
(* Parts that share no state:                                              *)
(*   - the sprint half: the sprints and issues tables, the sprint risk     *)
(*     scorer compute_risk_for_sprint, the alerts and insights computed    *)
(*     from a sprint, and the /sprints endpoints (app/routers/sprints.py,  *)
(*     app/routers/integrations.py), each as one step and, for the         *)
(*     concurrent recomputations, GET /sprints/{id} statement by           *)
(*     statement;                                                          *)
(*   - the task half: the tasks and ai_task_logs tables, the plan          *)
(*     generation orchestrator (app/ai_logic.py) and the task endpoints,   *)
(*     both as written in app/routers/tasks.py and as assembled in         *)
(*     app/main.py;                                                        *)
(*   - the task risk profile and the priority bucket                       *)
(*     (app/services/intelligence.py), functions of a task and the tasks   *)
(*     given with it, and GET /intelligence/analysis, which applies them   *)
(*     to a user's tasks;                                                  *)
(*   - the next steps of a task (app/services/task_logic.py), derived from *)
(*     the texts of the rows of the tasks table;                           *)
(*   - POST /sprints/{id}/issues statement by statement, for concurrent    *)
(*     requests, and the sprint endpoints with the user who asks, the      *)
(*     owner of each sprint and the sprint_collaborators table (acl).      *)
(*                                                                         *)
(* Representation.                                                         *)
(*   Time is counted in ticks, TicksPerDay ticks to a day, so that         *)
(*   timedelta.days (a floor) is not the identity.                         *)
(*   A float risk score x is the integer x * Scale; Scale is a multiple of *)
(*   every issue count up to 9 and the input sets below are chosen so that *)
(*   the scorer's divisions are exact at this scale (C2's formula          *)
(*   cross-multiplies and so checks that as well).                         *)
(*   A text is a sequence of string tokens; None is the empty sequence.    *)
(*   Where substrings matter (the next steps) a text is the sequence of    *)
(*   its characters.                                                       *)
(***************************************************************************)
EXTENDS Integers, Sequences, FiniteSets

VARIABLES
    now,        \* datetime.utcnow(), in ticks
    sprints,    \* the sprints table: id -> row
    issues,     \* the issues table, in insertion order
    response,   \* the body of the last /sprints response, NoResponse otherwise
    sessions,   \* per concurrent request: its position and its Session's sprint
    tasks,      \* the tasks table: row id is the index
    logs,       \* the ai_task_logs table: logs[t] is the rows of task t, by id
    procs,      \* per task: the request or background job that runs it
    hist,       \* per task: what has happened to it (history only)
    analysis,    \* a task, the tasks given with it, and its risk card once made
    acl         \* who owns each sprint, and the sprint_collaborators table

sprintVars == <<now, sprints, issues, response, sessions, acl>>

taskVars == <<tasks, logs, procs, hist>>

vars == <<now, sprints, issues, response, sessions, tasks, logs, procs, hist,
          analysis, acl>>

----------------------------------------------------------------------------
(* Bounds and input sets of the sprint half.                               *)

MaxIssues == 4

TicksPerDay == 2

Scale == 25200

\* The instants at which requests are served: day 5, day 5.5 and day 10.5.
Instants == {10, 11, 21}

SprintIds == {1}

NoDate == -1

\* SprintCreate bodies: a 10-day sprint, dates left out (both default to
\* utcnow, a zero-day span), an end 2.5 days before the start.
SprintPayloads ==
    { [start_date |-> 0, end_date |-> 20],
      [start_date |-> NoDate, end_date |-> NoDate],
      [start_date |-> 7, end_date |-> 2] }

\* An assignee left out (None).
NoAssignee == ""

\* IssueCreate bodies.
IssuePayloads ==
    { [status |-> "open", is_blocker |-> FALSE, assignee |-> NoAssignee],
      [status |-> "open", is_blocker |-> TRUE, assignee |-> NoAssignee],
      [status |-> "CLOSED", is_blocker |-> TRUE, assignee |-> NoAssignee] }

\* The status names of the issues a Jira search returns.
JiraResults == { <<>>, <<"To Do">>, <<"Done", "In Progress">> }

NoResponse == [endpoint |-> "none", risks |-> <<>>]

\* Inputs of the access scenarios: three users, of whom asha and ben create
\* sprints and ben and chen are added and removed as members, two sprints,
\* and a sprint_collaborators table of up to MaxMembers rows beside up to
\* MaxAccessIssues issues.
Users == {"asha", "ben", "chen"}

AccessSprintIds == {1, 2}

MaxMembers == 1

MaxAccessIssues == 1

\* No sprint has an owner, no collaborator row: the sprints of the other
\* scenarios are all the one user's.
NoAcl == [owner |-> << >>, collaborators |-> << >>]

\* Inputs of the concurrent recomputations: two requests; day 5, day 6 and
\* day 6.5; a sprint from day 0.5 to day 10.5, which has 5 days left at the
\* first instant and 4 at the other two.
Requests == {1, 2}

RaceInstants == {10, 12, 13}

RaceSprintPayloads == { [start_date |-> 1, end_date |-> 21] }

RaceIssuePayloads ==
    { [status |-> "open", is_blocker |-> TRUE, assignee |-> NoAssignee],
      [status |-> "CLOSED", is_blocker |-> FALSE, assignee |-> NoAssignee] }

\* Inputs of the alert scenarios.  The instants are day 8.5, day 9 and day
\* 10: a blocker is then half a day, exactly one day or a day and a half old.
AlertInstants == {17, 18, 20}

\* Two sprints begun on day 2.5: one ends on day 9.5 (1, 0 and -1 days left
\* at the three instants), one on day 12.5 (4, 3 and 2 days left).
AlertSprintPayloads ==
    { [start_date |-> 5, end_date |-> 19],
      [start_date |-> 5, end_date |-> 25] }

\* IssueCreate bodies of the alert scenarios, in the order in which a
\* scenario posts them.
AlertIssuePayloads ==
    << [status |-> "open", is_blocker |-> TRUE, assignee |-> "asha"],
       [status |-> "Done", is_blocker |-> TRUE, assignee |-> "asha"],
       [status |-> "open", is_blocker |-> FALSE, assignee |-> "asha"],
       [status |-> "completed", is_blocker |-> FALSE, assignee |-> "ben"],
       [status |-> "open", is_blocker |-> FALSE, assignee |-> NoAssignee],
       [status |-> "In Progress", is_blocker |-> TRUE, assignee |-> "ben"] >>

----------------------------------------------------------------------------
(* The sprint risk scorer.                                                 *)

IncompleteWeightTenths == 6
TimeWeightTenths == 3
BlockerWeightTenths == 1
HighThresholdTenths == 7
MediumThresholdTenths == 4

\* str.lower() on the status names that occur.
Lower(s) ==
    CASE s = "Done" -> "done"
      [] s = "CLOSED" -> "closed"
      [] s = "To Do" -> "to do"
      [] s = "In Progress" -> "in progress"
      [] OTHER -> s

\* timedelta.days: whole days, rounded towards minus infinity.
Days(ticks) == ticks \div TicksPerDay

Min(a, b) == IF a < b THEN a ELSE b
Max(a, b) == IF a > b THEN a ELSE b

\* sprint.issues: the relationship, loaded from the issues table.
IssuesOf(id) == SelectSeq(issues, LAMBDA i : i.sprint_id = id)

IsIncomplete(i) == Lower(i.status) \notin {"done", "resolved", "closed"}

Incomplete(iss) == SelectSeq(iss, IsIncomplete)

\* A faulty variant of Blockers that skips finished issues; C2 rejects it.
OpenBlockers(iss) == SelectSeq(iss, LAMBDA i : i.is_blocker /\ IsIncomplete(i))

Blockers(iss) == SelectSeq(iss, LAMBDA i : i.is_blocker)

TotalDays(s) ==
    LET d == Days(s.end_date - s.start_date) IN IF d = 0 THEN 1 ELSE d

DaysLeft(s, t) == Days(s.end_date - t)

\* max(0, min(1, n / d)) * w for a fraction n / d and a scaled weight w.
ClampedFraction(n, d, w) ==
    LET num == IF d < 0 THEN -n ELSE n
        den == IF d < 0 THEN -d ELSE d
    IN  IF num <= 0 THEN 0
        ELSE IF num >= den THEN w
        ELSE (w * num) \div den

Tenths(k) == k * (Scale \div 10)

RiskLevelOf(score) ==
    IF score > Tenths(HighThresholdTenths) THEN "high"
    ELSE IF score > Tenths(MediumThresholdTenths) THEN "medium"
    ELSE "low"

RawRiskScore(s, iss, t) ==
    (Tenths(IncompleteWeightTenths) * Len(Incomplete(iss))) \div Len(iss)
    + ClampedFraction(TotalDays(s) - DaysLeft(s, t), TotalDays(s),
                      Tenths(TimeWeightTenths))
    + Tenths(BlockerWeightTenths) * Len(Blockers(iss))

\* A faulty variant of ClampScore without the upper bound; C1 rejects it.
ClampBelowOnly(x) == Max(0, x)

ClampScore(x) == Max(0, Min(Scale, x))

\* A faulty variant of EmptySprintRisk that leaves the timestamp; C3 rejects it.
EmptySprintRiskUnstamped(s, t) ==
    [s EXCEPT !.risk_score = 0, !.risk_level = "low"]

EmptySprintRisk(s, t) ==
    [s EXCEPT !.risk_score = 0, !.risk_level = "low", !.last_evaluated_at = t]

\* A faulty variant of compute_risk_for_sprint that never lowers a stored
\* score; C12 rejects it.
NeverLoweringRisk(s, iss, t) ==
    LET risk_score == IF Len(iss) = 0 THEN 0
                      ELSE ClampScore(RawRiskScore(s, iss, t))
    IN  IF risk_score < s.risk_score
        THEN [s EXCEPT !.last_evaluated_at = t]
        ELSE [s EXCEPT !.risk_score = risk_score,
                       !.risk_level = RiskLevelOf(risk_score),
                       !.last_evaluated_at = t]

\* compute_risk_for_sprint(sprint), with sprint.issues = iss and utcnow = t.
compute_risk_for_sprint(s, iss, t) ==
    IF Len(iss) = 0
    THEN EmptySprintRisk(s, t)
    ELSE LET risk_score == ClampScore(RawRiskScore(s, iss, t))
         IN  [s EXCEPT !.risk_score = risk_score,
                       !.risk_level = RiskLevelOf(risk_score),
                       !.last_evaluated_at = t]

----------------------------------------------------------------------------
(* Alerts and insights.                                                    *)

\* generate_alerts_for_sprint's open_issues test.
AlertOpen(i) == Lower(i.status) \notin {"done", "resolved", "closed"}

\* An alert: type and level as in SprintAlert; issue and assignee are what
\* the message names (0 and NoAssignee when it names none).
Alert(type, level, issue, assignee) ==
    [type |-> type, level |-> level, issue |-> issue, assignee |-> assignee]

\* A faulty variant of RiskAlerts that is silent on medium; C14 rejects it.
RiskAlertsHighOnly(s) ==
    IF s.risk_level = "high"
    THEN << Alert("risk", "critical", 0, NoAssignee) >>
    ELSE << >>

\* 1) High risk sprint
RiskAlerts(s) ==
    IF s.risk_level = "high"
    THEN << Alert("risk", "critical", 0, NoAssignee) >>
    ELSE IF s.risk_level = "medium"
    THEN << Alert("risk", "warning", 0, NoAssignee) >>
    ELSE << >>

\* The age of a blocker at t, in ticks.
BlockerAge(blk, t) ==
    IF blk.updated_at # NoDate THEN t - blk.updated_at
    ELSE IF blk.created_at # NoDate THEN t - blk.created_at
    ELSE 0

\* A faulty variant of BlockerLevel, critical only after more than a day; C15
\* rejects it.
BlockerLevelAfterADay(age) ==
    IF age > TicksPerDay THEN "critical" ELSE "warning"

\* age >= timedelta(days=1)
BlockerLevel(age) ==
    IF age >= TicksPerDay THEN "critical" ELSE "warning"

\* 2) Blockers open > 1 day: one alert per open blocker, in issue order.
BlockerAlerts(iss, t) ==
    LET blockers == SelectSeq([n \in 1..Len(iss) |-> n],
                       LAMBDA n : AlertOpen(iss[n]) /\ iss[n].is_blocker)
    IN  [k \in 1..Len(blockers) |->
            Alert("blocker", BlockerLevel(BlockerAge(iss[blockers[k]], t)),
                  blockers[k], NoAssignee)]

\* A faulty variant of DeadlineAlerts that warns only below two days left;
\* C16 rejects it.
DeadlineAlertsBelowTwo(days_left, open_issues) ==
    IF days_left < 2 /\ days_left >= 0 /\ Len(open_issues) > 0
    THEN << Alert("deadline", "warning", 0, NoAssignee) >>
    ELSE IF days_left < 0 /\ Len(open_issues) > 0
    THEN << Alert("deadline", "critical", 0, NoAssignee) >>
    ELSE << >>

\* 3) Sprint ending soon with open issues
DeadlineAlerts(days_left, open_issues) ==
    IF days_left <= 2 /\ days_left >= 0 /\ Len(open_issues) > 0
    THEN << Alert("deadline", "warning", 0, NoAssignee) >>
    ELSE IF days_left < 0 /\ Len(open_issues) > 0
    THEN << Alert("deadline", "critical", 0, NoAssignee) >>
    ELSE << >>

\* assignee_counts[a]
AssigneeCount(open_issues, a) ==
    Len(SelectSeq(open_issues, LAMBDA i : i.assignee = a))

\* A faulty variant of Overloaded that needs more than four; C17 rejects it.
OverloadedAboveFour(cnt) == cnt > 4

Overloaded(cnt) == cnt >= 4

\* 4) Overloaded assignees: the keys of assignee_counts in insertion order,
\* that is by first open issue, and one alert for each overloaded one.
AssigneeAlerts(open_issues) ==
    LET firsts == SelectSeq([n \in 1..Len(open_issues) |-> n],
                     LAMBDA n : /\ open_issues[n].assignee # NoAssignee
                                /\ \A m \in 1..(n - 1) :
                                      open_issues[m].assignee # open_issues[n].assignee)
        overloaded == SelectSeq(firsts,
                         LAMBDA n : Overloaded(AssigneeCount(open_issues,
                                                   open_issues[n].assignee)))
    IN  [k \in 1..Len(overloaded) |->
            Alert("assignee", "info", 0, open_issues[overloaded[k]].assignee)]

\* generate_alerts_for_sprint(sprint), with sprint.issues = iss and utcnow = t.
generate_alerts_for_sprint(s, iss, t) ==
    LET open_issues == SelectSeq(iss, AlertOpen)
    IN  RiskAlerts(s)
        \o BlockerAlerts(iss, t)
        \o DeadlineAlerts(DaysLeft(s, t), open_issues)
        \o AssigneeAlerts(open_issues)

\* build_sprint_insights' done_like_statuses test.
InsightDone(i) == Lower(i.status) \in {"done", "resolved", "closed", "completed"}

\* build_sprint_insights(sprint): of the answer, the snapshot's two issue
\* counts and the signal read from the stored risk_level.
build_sprint_insights(s, iss, t) ==
    [tasks_total |-> Len(iss),
     tasks_completed |-> Len(SelectSeq(iss, InsightDone)),
     high_risk |-> s.risk_level = "high"]

----------------------------------------------------------------------------
(* The /sprints endpoints.                                                 *)

RiskView(s) == [risk_score |-> s.risk_score, risk_level |-> s.risk_level]

Recomputed(id) == compute_risk_for_sprint(sprints[id], IssuesOf(id), now)

NewSprint(start, end, t) ==
    [start_date |-> start, end_date |-> end,
     risk_score |-> 0, risk_level |-> "low", last_evaluated_at |-> t]

AdvanceClock(t) ==
    /\ t > now
    /\ now' = t
    /\ response' = NoResponse
    /\ UNCHANGED <<sprints, issues>>
    /\ UNCHANGED <<sessions, analysis, acl, taskVars>>

\* POST /sprints/
create_sprint(id, payload) ==
    /\ id \in SprintIds \ DOMAIN sprints
    /\ \A j \in SprintIds \ DOMAIN sprints : id <= j
    /\ sprints' = [k \in DOMAIN sprints \cup {id} |->
                     IF k = id
                     THEN NewSprint(
                            IF payload.start_date = NoDate THEN now
                                                           ELSE payload.start_date,
                            IF payload.end_date = NoDate THEN now
                                                         ELSE payload.end_date,
                            now)
                     ELSE sprints[k]]
    /\ response' = NoResponse
    /\ UNCHANGED <<now, issues>>
    /\ UNCHANGED <<sessions, analysis, acl, taskVars>>

\* The Issue row of the n-th search result, which names a status and neither
\* an assignee nor dates: the key is Jira's, both timestamps are utcnow.
JiraIssue(id, n, name, t) ==
    [sprint_id |-> id, key |-> << "JIRA", id, n >>, status |-> name,
     is_blocker |-> FALSE, assignee |-> NoAssignee,
     created_at |-> t, updated_at |-> t]

\* POST /integrations/jira/import-project
import_jira_project(id, names) ==
    /\ id \in SprintIds \ DOMAIN sprints
    /\ \A j \in SprintIds \ DOMAIN sprints : id <= j
    /\ Len(issues) + Len(names) <= MaxIssues
    /\ sprints' = [k \in DOMAIN sprints \cup {id} |->
                     IF k = id THEN NewSprint(now, now, now) ELSE sprints[k]]
    /\ issues' = issues \o [n \in 1..Len(names) |-> JiraIssue(id, n, names[n], now)]
    /\ response' = NoResponse
    /\ UNCHANGED now
    /\ UNCHANGED <<sessions, analysis, acl, taskVars>>

\* f"SPR-{sprint_id}-{count + 1}"
IssueKey(sprint_id, count) == << "SPR", sprint_id, count + 1 >>

\* The Issue row of a payload.
NewIssue(id, key, payload, t) ==
    [sprint_id |-> id, key |-> key, status |-> payload.status,
     is_blocker |-> payload.is_blocker, assignee |-> payload.assignee,
     created_at |-> t, updated_at |-> t]

\* POST /sprints/{sprint_id}/issues.  The session is made with
\* autoflush=False and the new issue is only added to the session, so the
\* sprint.issues that compute_risk_for_sprint loads is the table's content
\* before the insert.
create_issue_for_sprint(id, payload) ==
    /\ id \in DOMAIN sprints
    /\ sprints' = [sprints EXCEPT ![id] = Recomputed(id)]
    /\ issues' = Append(issues,
                        NewIssue(id, IssueKey(id, Len(IssuesOf(id))), payload, now))
    /\ response' = NoResponse
    /\ UNCHANGED now
    /\ UNCHANGED <<sessions, analysis, acl, taskVars>>

\* GET /sprints/: the rows as stored.
list_sprints ==
    /\ DOMAIN sprints # {}
    /\ response' = [endpoint |-> "list_sprints",
                    risks |-> [k \in DOMAIN sprints |-> RiskView(sprints[k])]]
    /\ UNCHANGED <<now, sprints, issues>>
    /\ UNCHANGED <<sessions, analysis, acl, taskVars>>

\* GET /sprints/with_issues
list_sprints_with_issues ==
    /\ DOMAIN sprints # {}
    /\ sprints' = [k \in DOMAIN sprints |-> Recomputed(k)]
    /\ response' = [endpoint |-> "list_sprints_with_issues",
                    risks |-> [k \in DOMAIN sprints |-> RiskView(sprints'[k])]]
    /\ UNCHANGED <<now, issues>>
    /\ UNCHANGED <<sessions, analysis, acl, taskVars>>

\* GET /sprints/{sprint_id} and GET /sprints/risk/{sprint_id}: recompute,
\* commit, refresh, answer.
RecomputingRead(name, id) ==
    /\ id \in DOMAIN sprints
    /\ sprints' = [sprints EXCEPT ![id] = Recomputed(id)]
    /\ response' = [endpoint |-> name,
                    risks |-> [k \in {id} |-> RiskView(sprints'[k])]]
    /\ UNCHANGED <<now, issues>>
    /\ UNCHANGED <<sessions, analysis, acl, taskVars>>

get_sprint(id) == RecomputingRead("get_sprint", id)

\* GET /sprints/{sprint_id}/alerts: recompute, commit, refresh, then answer
\* the alerts of the refreshed sprint.
get_sprint_alerts(id) ==
    /\ id \in DOMAIN sprints
    /\ sprints' = [sprints EXCEPT ![id] = Recomputed(id)]
    /\ response' = [endpoint |-> "get_sprint_alerts",
                    risks |-> [k \in {id} |-> RiskView(sprints'[k])],
                    alerts |-> generate_alerts_for_sprint(sprints'[id],
                                                          IssuesOf(id), now)]
    /\ UNCHANGED <<now, issues>>
    /\ UNCHANGED <<sessions, analysis, acl, taskVars>>

get_sprint_risk(id) == RecomputingRead("get_sprint_risk", id)

\* A faulty variant of get_sprint_insights that recomputes and commits; C18
\* rejects it.
InsightsRecomputing(id) ==
    /\ id \in DOMAIN sprints
    /\ sprints' = [sprints EXCEPT ![id] = Recomputed(id)]
    /\ response' = [endpoint |-> "get_sprint_insights",
                    risks |-> [k \in {id} |-> RiskView(sprints'[k])],
                    insights |-> build_sprint_insights(sprints'[id],
                                                       IssuesOf(id), now)]
    /\ UNCHANGED <<now, issues>>
    /\ UNCHANGED <<sessions, analysis, acl, taskVars>>

\* GET /sprints/{sprint_id}/insights: build_sprint_insights reads the stored
\* risk_level and writes nothing.
get_sprint_insights(id) ==
    /\ id \in DOMAIN sprints
    /\ response' = [endpoint |-> "get_sprint_insights",
                    risks |-> [k \in {id} |-> RiskView(sprints[k])],
                    insights |-> build_sprint_insights(sprints[id],
                                                       IssuesOf(id), now)]
    /\ UNCHANGED <<now, sprints, issues>>
    /\ UNCHANGED <<sessions, analysis, acl, taskVars>>

----------------------------------------------------------------------------
(* GET /sprints/{sprint_id} served concurrently: every request has its own *)
(* Session (get_db), and its statements interleave with the other's.       *)

NoSession == [pc |-> "idle"]

\* UPDATE sprints SET ... of a flush that writes risk_score only; C13 rejects
\* it.
FlushRiskScoreOnly(row, loaded, obj) ==
    [row EXCEPT
       !.risk_score = IF obj.risk_score # loaded.risk_score
                      THEN obj.risk_score ELSE @,
       !.last_evaluated_at = IF obj.last_evaluated_at # loaded.last_evaluated_at
                             THEN obj.last_evaluated_at ELSE @]

\* UPDATE sprints SET ...: the attributes whose value differs from the one
\* the Session loaded.
FlushRisk(row, loaded, obj) ==
    [row EXCEPT
       !.risk_score = IF obj.risk_score # loaded.risk_score
                      THEN obj.risk_score ELSE @,
       !.risk_level = IF obj.risk_level # loaded.risk_level
                      THEN obj.risk_level ELSE @,
       !.last_evaluated_at = IF obj.last_evaluated_at # loaded.last_evaluated_at
                             THEN obj.last_evaluated_at ELSE @]

\* _get_accessible_sprint and `_ = sprint.issues`: the Session loads the row
\* and the relationship.
LoadSprint(r, id) ==
    /\ sessions[r].pc = "idle"
    /\ id \in DOMAIN sprints
    /\ sessions' = [sessions EXCEPT ![r] =
                      [pc |-> "loaded", id |-> id, loaded |-> sprints[id],
                       sprint |-> sprints[id], issues |-> IssuesOf(id),
                       at |-> NoDate]]
    /\ response' = NoResponse
    /\ UNCHANGED <<now, sprints, issues>>
    /\ UNCHANGED <<analysis, acl, taskVars>>

\* compute_risk_for_sprint(sprint) on the Session's object.
ComputeRisk(r) ==
    /\ sessions[r].pc = "loaded"
    /\ sessions' = [sessions EXCEPT
                      ![r].pc = "computed",
                      ![r].sprint = compute_risk_for_sprint(
                                        sessions[r].sprint, sessions[r].issues, now),
                      ![r].at = now]
    /\ response' = NoResponse
    /\ UNCHANGED <<now, sprints, issues>>
    /\ UNCHANGED <<analysis, acl, taskVars>>

\* db.commit()
CommitRisk(r) ==
    /\ sessions[r].pc = "computed"
    /\ sprints' = [sprints EXCEPT ![sessions[r].id] =
                     FlushRisk(@, sessions[r].loaded, sessions[r].sprint)]
    /\ sessions' = [sessions EXCEPT ![r].pc = "committed"]
    /\ response' = NoResponse
    /\ UNCHANGED <<now, issues>>
    /\ UNCHANGED <<analysis, acl, taskVars>>

\* db.refresh(sprint) and the answer.
RefreshAndAnswer(r) ==
    /\ sessions[r].pc = "committed"
    /\ sessions' = [sessions EXCEPT ![r].pc = "done",
                                    ![r].sprint = sprints[sessions[r].id]]
    /\ response' = [endpoint |-> "get_sprint",
                    risks |-> [k \in {sessions[r].id} |-> RiskView(sprints[k])]]
    /\ UNCHANGED <<now, sprints, issues>>
    /\ UNCHANGED <<analysis, acl, taskVars>>

\* The endpoints with the user who asks.  Sprint.owner_email is acl.owner,
\* the rows of models.SprintCollaborator are acl.collaborators; the answer
\* names the endpoint, the user, the sprint and the status.

IsCollaborator(user, id) ==
    \E k \in DOMAIN acl.collaborators :
        /\ acl.collaborators[k].sprint_id = id
        /\ acl.collaborators[k].email = user

\* _get_owned_sprint: TRUE when it returns the sprint, FALSE when it raises
\* the 404.
get_owned_sprint(user, id) ==
    /\ id \in DOMAIN sprints
    /\ acl.owner[id] = user

\* _get_accessible_sprint with _get_owned_sprint's test in its place.
get_accessible_sprint_owner_only(user, id) ==
    /\ id \in DOMAIN sprints
    /\ acl.owner[id] = user

\* _get_accessible_sprint: TRUE when it returns the sprint, FALSE when it
\* raises the 404.
get_accessible_sprint(user, id) ==
    /\ id \in DOMAIN sprints
    /\ \/ acl.owner[id] = user
       \/ IsCollaborator(user, id)

Answer(endpoint, user, id, email, status, risks) ==
    [endpoint |-> endpoint, user |-> user, id |-> id, email |-> email,
     status |-> status, risks |-> risks]

\* POST /sprints/ by a user who owns the project.
create_sprint_as(user, id, payload) ==
    /\ id \in AccessSprintIds \ DOMAIN sprints
    /\ \A j \in AccessSprintIds \ DOMAIN sprints : id <= j
    /\ sprints' = [k \in DOMAIN sprints \cup {id} |->
                     IF k = id
                     THEN NewSprint(payload.start_date, payload.end_date, now)
                     ELSE sprints[k]]
    /\ acl' = [acl EXCEPT !.owner = [k \in DOMAIN sprints \cup {id} |->
                                        IF k = id THEN user ELSE acl.owner[k]]]
    /\ response' = Answer("create_sprint", user, id, "", 200, << >>)
    /\ UNCHANGED <<now, issues>>
    /\ UNCHANGED <<sessions, analysis, taskVars>>

\* POST /sprints/{sprint_id}/members
add_sprint_member(user, id, email) ==
    /\ IF ~get_owned_sprint(user, id)
       THEN /\ response' = Answer("add_sprint_member", user, id, email, 404, << >>)
            /\ UNCHANGED acl
       ELSE /\ response' = Answer("add_sprint_member", user, id, email, 200, << >>)
            /\ acl' = IF IsCollaborator(email, id) THEN acl
                      ELSE [acl EXCEPT !.collaborators =
                               Append(@, [sprint_id |-> id, email |-> email])]
    /\ UNCHANGED <<now, sprints, issues>>
    /\ UNCHANGED <<sessions, analysis, taskVars>>

\* DELETE /sprints/{sprint_id}/members: the first row of that sprint and
\* email is deleted.
remove_sprint_member(user, id, email) ==
    /\ IF ~get_owned_sprint(user, id) \/ ~IsCollaborator(email, id)
       THEN /\ response' = Answer("remove_sprint_member", user, id, email, 404, << >>)
            /\ UNCHANGED acl
       ELSE LET first == CHOOSE k \in DOMAIN acl.collaborators :
                            /\ acl.collaborators[k].sprint_id = id
                            /\ acl.collaborators[k].email = email
                            /\ \A j \in 1..(k - 1) :
                                  \/ acl.collaborators[j].sprint_id # id
                                  \/ acl.collaborators[j].email # email
            IN  /\ response' = Answer("remove_sprint_member", user, id, email,
                                      204, << >>)
                /\ acl' = [acl EXCEPT !.collaborators =
                             SubSeq(@, 1, first - 1)
                             \o SubSeq(@, first + 1, Len(@))]
    /\ UNCHANGED <<now, sprints, issues>>
    /\ UNCHANGED <<sessions, analysis, taskVars>>

\* POST /sprints/{sprint_id}/issues by a user.
create_issue_as(user, id, payload) ==
    /\ IF ~get_owned_sprint(user, id)
       THEN /\ response' = Answer("create_issue_for_sprint", user, id, "", 404, << >>)
            /\ UNCHANGED <<sprints, issues>>
       ELSE /\ response' = Answer("create_issue_for_sprint", user, id, "", 200, << >>)
            /\ sprints' = [sprints EXCEPT ![id] = Recomputed(id)]
            /\ issues' = Append(issues,
                                NewIssue(id, IssueKey(id, Len(IssuesOf(id))),
                                         payload, now))
    /\ UNCHANGED <<now, acl>>
    /\ UNCHANGED <<sessions, analysis, taskVars>>

\* The endpoints that read a sprint.
ReadEndpoints ==
    {"list_issues_for_sprint", "list_sprint_members", "get_sprint",
     "get_sprint_alerts", "get_sprint_risk", "get_sprint_insights"}

\* GET /sprints/{sprint_id}/issues, /members, /sprints/{sprint_id},
\* /alerts, /sprints/risk/{sprint_id} and /insights by a user; three of them
\* store the recomputed risk before they answer.
read_sprint_as(endpoint, user, id) ==
    /\ IF ~get_accessible_sprint(user, id)
       THEN /\ response' = Answer(endpoint, user, id, "", 404, << >>)
            /\ UNCHANGED sprints
       ELSE /\ sprints' = IF endpoint \in {"get_sprint", "get_sprint_alerts",
                                           "get_sprint_risk"}
                          THEN [sprints EXCEPT ![id] = Recomputed(id)]
                          ELSE sprints
            /\ response' = Answer(endpoint, user, id, "", 200,
                                  [k \in {id} |-> RiskView(sprints'[k])])
    /\ UNCHANGED <<now, issues, acl>>
    /\ UNCHANGED <<sessions, analysis, taskVars>>

\* POST /sprints/{sprint_id}/issues as the steps of one request among
\* others.  First the sprint is loaded and the sprint's issues are counted.
CountIssues(r, id, payload) ==
    /\ sessions[r].pc = "idle"
    /\ id \in DOMAIN sprints
    /\ sessions' = [sessions EXCEPT ![r] =
                      [pc |-> "counted", id |-> id, loaded |-> sprints[id],
                       sprint |-> sprints[id], issues |-> << >>, at |-> NoDate,
                       key |-> IssueKey(id, Len(IssuesOf(id))),
                       payload |-> payload]]
    /\ response' = NoResponse
    /\ UNCHANGED <<now, sprints, issues>>
    /\ UNCHANGED <<analysis, acl, taskVars>>

\* db.add(issue) and compute_risk_for_sprint(sprint), which loads
\* sprint.issues without flushing the new row.
ComputeRiskForCreate(r) ==
    /\ sessions[r].pc = "counted"
    /\ sessions' = [sessions EXCEPT
                      ![r].pc = "added",
                      ![r].issues = IssuesOf(sessions[r].id),
                      ![r].sprint = compute_risk_for_sprint(
                                        sessions[r].sprint,
                                        IssuesOf(sessions[r].id), now),
                      ![r].at = now]
    /\ response' = NoResponse
    /\ UNCHANGED <<now, sprints, issues>>
    /\ UNCHANGED <<analysis, acl, taskVars>>

\* db.commit(): the INSERT of the issue and the UPDATE of the sprint; then
\* the refreshes and the answer, which is the issue.
CommitIssue(r) ==
    /\ sessions[r].pc = "added"
    /\ issues' = Append(issues, NewIssue(sessions[r].id, sessions[r].key,
                                         sessions[r].payload, now))
    /\ sprints' = [sprints EXCEPT ![sessions[r].id] =
                     FlushRisk(@, sessions[r].loaded, sessions[r].sprint)]
    /\ sessions' = [sessions EXCEPT ![r] = NoSession]
    /\ response' = NoResponse
    /\ UNCHANGED now
    /\ UNCHANGED <<analysis, acl, taskVars>>

----------------------------------------------------------------------------
(* Bounds and input sets of the task half.                                 *)

MaxTasks == 1

MaxPatches == 1

NoText == <<>>

NoStatus == "None"

Meta(squad, team, priority, company, currency, requires) ==
    [squad |-> squad, team |-> team, priority |-> priority,
     company |-> company, currency |-> currency, requires |-> requires]

\* A metadata dict over the keys the fallback plan reads; "" is an absent key.
NoMeta == Meta("", "", "", "", "", "")

\* TaskCreate bodies.
TaskPayloads ==
    { [title |-> <<"Ship", "weekly", "revenue", "API">>,
       metadata |-> Meta("finance", "", "high", "", " usd ", "")] }

\* What client.chat.completions.create does: it returns a reply whose
\* message content is a text or None, or it raises an exception with a
\* message.
ProviderOutcomes ==
    { [raised |-> FALSE, has_content |-> TRUE,
       text |-> <<" ", "1. Assign an owner.", "\n">>],
      [raised |-> FALSE, has_content |-> FALSE, text |-> <<>>],
      [raised |-> TRUE, has_content |-> FALSE,
       text |-> <<"Error code: ", "429", " - rate limit reached">>],
      [raised |-> TRUE, has_content |-> FALSE,
       text |-> <<"You exceeded your current quota: ", "insufficient_quota">>],
      [raised |-> TRUE, has_content |-> FALSE,
       text |-> <<"Connection error.">>] }

\* TaskUpdate bodies: status and result_text are Optional[str].
PatchBodies ==
    { [status |-> "archived", result_text |-> NoText] }

----------------------------------------------------------------------------
(* The plan generation orchestrator (app/ai_logic.py).                     *)

\* `s in text` for a text of tokens.
Contains(text, s) == \E n \in 1..Len(text) : text[n] = s

\* A text holds the tokens of another, in a row.
ContainsText(text, sub) ==
    \E n \in 0..(Len(text) - Len(sub)) : SubSeq(text, n + 1, n + Len(sub)) = sub

Whitespace == {" ", "\n"}

\* str.strip()
Strip(text) ==
    LET inked == {n \in 1..Len(text) : text[n] \notin Whitespace}
    IN  IF inked = {} THEN <<>>
        ELSE SubSeq(text, CHOOSE a \in inked : \A b \in inked : a <= b,
                          CHOOSE a \in inked : \A b \in inked : a >= b)

\* currency.strip().upper() on the currencies that occur.
StripUpper(c) == CASE c = " usd " -> "USD" [] OTHER -> c

LowerWord(w) ==
    CASE w = "Ship" -> "ship"
      [] w = "API" -> "api"
      [] OTHER -> w

Or(a, b) == IF a # "" THEN a ELSE b

_infer_currency(metadata, fallback) ==
    IF metadata.currency # "" /\ StripUpper(metadata.currency) # ""
    THEN StripUpper(metadata.currency)
    ELSE fallback

\* The lower-cased words of f"{title} {metadata}": the title's, and the keys
\* and values of the dict.
TextBlob(title, metadata) ==
    {LowerWord(title[n]) : n \in 1..Len(title)}
        \cup {k \in DOMAIN metadata : metadata[k] # ""}
        \cup {LowerWord(metadata[k]) : k \in DOMAIN metadata}

\* `k in text` is a substring test; on the words of TaskPayloads it is word
\* membership (no keyword is part of a longer word there).
_infer_context_flags(words) ==
    [is_finance |-> words \cap {"revenue", "cost", "pricing", "budget", "pnl"} # {},
     is_growth |-> words \cap {"campaign", "seo", "marketing", "growth", "acquisition"} # {},
     is_data |-> words \cap {"data", "dashboard", "report", "analysis", "analytics"} # {},
     is_engineering |-> words \cap {"build", "develop", "integration", "api", "deploy", "ship"} # {},
     is_customer |-> words \cap {"customer", "support", "cx", "success", "churn"} # {}]

When(flag, line) == IF flag THEN <<line>> ELSE <<>>

OrDefault(lines, line) == IF lines = <<>> THEN <<line>> ELSE lines

build_local_fallback_plan(title, metadata) ==
    LET squad == Or(metadata.squad, metadata.team)
        priority == IF metadata.priority = "" THEN "normal" ELSE metadata.priority
        company == metadata.company
        currency == _infer_currency(metadata, "INR")
        flags == _infer_context_flags(TextBlob(title, metadata))
        context == IF squad = "" /\ company = "" THEN <<"this task">>
                   ELSE When(squad # "", "squad " ) \o When(squad # "", squad)
                        \o When(company # "", "company ") \o When(company # "", company)
        steps == <<"- Clarify owner, deadline, and success criteria with ">> \o context
                 \o <<"- Log this task into your tracking tool with priority ", priority>>
                 \o When(flags.is_finance, "- Pull recent financial KPIs.")
                 \o When(flags.is_growth, "- Audit active campaigns.")
                 \o When(flags.is_data, "- Validate data freshness.")
                 \o When(flags.is_engineering, "- Break down implementation work.")
                 \o When(flags.is_customer, "- Review recent customer feedback.")
                 \o When(metadata.requires # "", "- Confirm prerequisites are done: ")
                 \o When(metadata.requires # "", metadata.requires)
        risks == OrDefault(
                   When(flags.is_finance, "- Delayed or inconsistent revenue data.")
                   \o When(flags.is_growth, "- Channel mix changes.")
                   \o When(flags.is_engineering, "- Integration or API limits.")
                   \o When(flags.is_customer, "- Customer-impacting changes.")
                   \o When(flags.is_data, "- Metric definitions not aligned."),
                   "- Key inputs might be incomplete or delayed.")
        data_needed == OrDefault(
                   When(flags.is_finance, "- Recent revenue/cost exports with ")
                   \o When(flags.is_finance, currency)
                   \o When(flags.is_growth, "- Campaign performance by channel.")
                   \o When(flags.is_data, "- Source-of-truth dashboards.")
                   \o When(flags.is_engineering, "- API docs and staging credentials.")
                   \o When(flags.is_customer, "- Latest NPS/CSAT data."),
                   "- Baseline metrics, owners, and success criteria.")
        dependencies == IF metadata.requires # "" THEN <<"- ", metadata.requires>>
                        ELSE <<"- No explicit dependencies captured in metadata.">>
    IN  Strip(<<"\n", "Summary: Execution plan for '">> \o title
              \o <<"' (local fallback, external AI unavailable).",
                   "Context:", "- Currency: ", currency, "- Scope: ">> \o context
              \o <<"Steps:">> \o steps
              \o <<"Risks:">> \o risks
              \o <<"DataNeeded:">> \o data_needed
              \o <<"Dependencies:">> \o dependencies
              \o <<"Note:", "- External AI provider is currently unavailable.",
                   "- Used the built-in local fallback playbook.", "\n">>)

\* A faulty variant of FallbackStatus that forgets the "429" test; C5 rejects
\* it.
FallbackStatusQuotaOnly(msg) ==
    IF Contains(msg, "insufficient_quota")
    THEN "fallback_insufficient_quota"
    ELSE "fallback_error"

\* The except branch's choice of external_provider_status.
FallbackStatus(msg) ==
    IF Contains(msg, "insufficient_quota") \/ Contains(msg, "429")
    THEN "fallback_insufficient_quota"
    ELSE "fallback_error"

\* str(e) of the AttributeError that None.strip() raises.
NoneTypeError == <<"'NoneType' object has no attribute 'strip'">>

\* run_ai_coo_logic(title, metadata), given what the one provider call does.
\* The whole body is inside the try: an exception of the call and one of
\* reading the reply take the same except branch.
run_ai_coo_logic(title, metadata, outcome) ==
    IF ~outcome.raised /\ outcome.has_content
    THEN [result_text |-> Strip(outcome.text), provider_status |-> "ok"]
    ELSE LET msg == IF outcome.raised THEN outcome.text ELSE NoneTypeError
         IN  [result_text |-> build_local_fallback_plan(title, metadata),
              provider_status |-> FallbackStatus(msg)]

----------------------------------------------------------------------------
(* The task endpoints and the background worker.                           *)
(*                                                                         *)
(* A handler is one of                                                     *)
(*   "tasks.run_task", "tasks.run_task_async" (app/routers/tasks.py; the   *)
(*       second with process_task_in_background),                          *)
(*   "main.run_task", "main.run_task_async" (app/main.py),                 *)
(*   or "create_task" (POST /tasks, nothing to run).                       *)
(* run_task_debug is run_task line for line in both files (it only leaves  *)
(* owner_email unset) and is the same handler here.                        *)
(* Each db.commit() either succeeds or raises; a handler that an exception *)
(* leaves is at pc "raised".  A session reloads a row's attributes on the  *)
(* first access after its own commit and keeps them until the next one;    *)
(* procs[t].loaded is that copy, and a flush writes the attributes whose   *)
(* new value differs from it.                                              *)

SyncHandlers == {"tasks.run_task", "main.run_task"}

AsyncHandlers == {"tasks.run_task_async", "main.run_task_async"}

RouterHandlers == {"tasks.run_task", "tasks.run_task_async"}

MainHandlers == {"main.run_task", "main.run_task_async"}

TaskIds == 1..Len(tasks)

NewTask(payload) ==
    [title |-> payload.title, metadata |-> payload.metadata, status |-> "pending",
     result_text |-> NoText, external_provider_status |-> "ok"]

\* apply_relationships_and_next_steps: result_text gets a default.
apply_relationships_and_next_steps(task) ==
    IF task.result_text = NoText
    THEN [task EXCEPT !.result_text = <<"AI-COO processed task: ">> \o task.title]
    ELSE task

\* What a session holds of a row.
Loaded(task) ==
    [status |-> task.status, result_text |-> task.result_text,
     external_provider_status |-> task.external_provider_status]

\* A faulty variant of LogEntry with the two statuses swapped; C10 rejects it.
LogEntrySwapped(t, event, old_status, new_status, result_text) ==
    [task_id |-> t, event |-> event, old_status |-> new_status,
     new_status |-> old_status, result_text |-> result_text]

\* log_task_event's row.
LogEntry(t, event, old_status, new_status, result_text) ==
    [task_id |-> t, event |-> event, old_status |-> old_status,
     new_status |-> new_status, result_text |-> result_text]

NewProc(handler, pc) ==
    [handler |-> handler, pc |-> pc, old_status |-> NoStatus,
     loaded |-> Loaded(NewTask([title |-> <<>>, metadata |-> NoMeta])),
     result |-> [result_text |-> NoText, provider_status |-> "ok"]]

NewHist ==
    [calls |-> 0, outcomes |-> <<>>, patches |-> 0, transitions |-> <<>>]

\* UPDATE tasks SET ...: the attributes the handler changed since it loaded
\* them.
Flush(row, loaded, changed) ==
    [row EXCEPT
       !.status = IF changed.status # loaded.status
                  THEN changed.status ELSE @,
       !.result_text = IF changed.result_text # loaded.result_text
                       THEN changed.result_text ELSE @,
       !.external_provider_status =
           IF changed.external_provider_status # loaded.external_provider_status
           THEN changed.external_provider_status ELSE @]

Raise(t) == procs' = [procs EXCEPT ![t].pc = "raised"]

Insert(task, handler, pc, created_log) ==
    /\ Len(tasks) < MaxTasks
    /\ tasks' = Append(tasks, task)
    /\ procs' = Append(procs, NewProc(handler, pc))
    /\ hist' = Append(hist, NewHist)
    /\ logs' = Append(logs, IF created_log
                             THEN <<LogEntry(Len(tasks) + 1, "created", NoStatus,
                                             task.status, task.result_text)>>
                             ELSE <<>>)
    /\ UNCHANGED <<sprintVars, analysis>>

\* POST /tasks of app/routers/tasks.py and of app/main.py.
create_task(app, payload) ==
    Insert(IF app = "tasks" THEN apply_relationships_and_next_steps(NewTask(payload))
                            ELSE NewTask(payload),
           "create_task", "done", FALSE)

\* POST /tasks/run and /tasks/run_debug, up to the "created" log entry.
run_task(handler, payload) ==
    /\ handler \in SyncHandlers
    /\ Insert(IF handler \in RouterHandlers
              THEN apply_relationships_and_next_steps(NewTask(payload))
              ELSE NewTask(payload),
              handler, "mark_in_progress", TRUE)

\* POST /tasks/run_async: the task is created and the worker queued.
run_task_async(handler, payload) ==
    /\ handler \in AsyncHandlers
    /\ Insert(IF handler \in RouterHandlers
              THEN apply_relationships_and_next_steps(NewTask(payload))
              ELSE NewTask(payload),
              handler, "mark_in_progress", FALSE)

\* A faulty variant of InProgressStatus that leaves the task pending; C6
\* rejects it.
StillPending == "pending"

InProgressStatus == "in_progress"

\* old_status = task.status; task.status = "in_progress"; db.commit()
MarkInProgress(t) ==
    /\ t \in TaskIds
    /\ procs[t].pc = "mark_in_progress"
    /\ \/ /\ tasks' = [tasks EXCEPT ![t].status = InProgressStatus]
          /\ procs' = [procs EXCEPT ![t].pc = "log_in_progress",
                                    ![t].old_status = tasks[t].status]
          /\ hist' = [hist EXCEPT ![t].transitions =
                        Append(@, <<tasks[t].status, InProgressStatus>>)]
       \/ /\ Raise(t)
          /\ UNCHANGED <<tasks, hist>>
    /\ UNCHANGED <<logs, sprintVars, analysis>>

\* log_task_event(old_status, task.status): the row is read again after the
\* commit.
LogInProgress(t) ==
    /\ t \in TaskIds
    /\ procs[t].pc = "log_in_progress"
    /\ \/ /\ logs' = [logs EXCEPT ![t] =
                        Append(@, LogEntry(t, "status_change", procs[t].old_status,
                                           tasks[t].status, tasks[t].result_text))]
          /\ procs' = [procs EXCEPT ![t].pc = "call"]
       \/ /\ Raise(t)
          /\ UNCHANGED logs
    /\ UNCHANGED <<tasks, hist, sprintVars, analysis>>

\* app/routers/tasks.py: run_ai_coo_logic(title=task.title, metadata=...).
\* Reading task.title loads the row; the provider is called once.
CallLogic(t, outcome) ==
    /\ t \in TaskIds
    /\ procs[t].pc = "call"
    /\ procs[t].handler \in RouterHandlers
    /\ procs' = [procs EXCEPT
                   ![t].pc = "complete",
                   ![t].loaded = Loaded(tasks[t]),
                   ![t].result = run_ai_coo_logic(tasks[t].title,
                                                  tasks[t].metadata, outcome)]
    /\ hist' = [hist EXCEPT ![t].calls = @ + 1,
                            ![t].outcomes = Append(@, outcome)]
    /\ UNCHANGED <<tasks, logs, sprintVars, analysis>>

\* app/main.py: run_ai_coo_logic(task) passes one argument to a function of
\* two, which raises TypeError before the provider is called.  The request
\* handlers let it through; the worker catches it.
MainCallLogic(t) ==
    /\ t \in TaskIds
    /\ procs[t].pc = "call"
    /\ procs[t].handler \in MainHandlers
    /\ procs' = [procs EXCEPT ![t].pc = IF procs[t].handler \in AsyncHandlers
                                        THEN "mark_failed" ELSE "raised"]
    /\ UNCHANGED <<tasks, logs, hist, sprintVars, analysis>>

CompletedStatus == "completed"

\* A faulty variant of Completion that fails the task on a fallback; C4
\* rejects it.
CompletionFailingOnFallback(t) ==
    [status |-> IF procs[t].result.provider_status = "ok"
                THEN CompletedStatus ELSE "failed",
     result_text |-> procs[t].result.result_text,
     external_provider_status |-> procs[t].result.provider_status]

Completion(t) ==
    [status |-> CompletedStatus,
     result_text |-> procs[t].result.result_text,
     external_provider_status |-> procs[t].result.provider_status]

\* old_status = task.status; task.status = "completed"; ...; db.commit();
\* db.refresh(task)
Complete(t) ==
    /\ t \in TaskIds
    /\ procs[t].pc = "complete"
    /\ \/ /\ tasks' = [tasks EXCEPT ![t] = Flush(@, procs[t].loaded, Completion(t))]
          /\ procs' = [procs EXCEPT ![t].pc = "log_completed",
                                    ![t].old_status = procs[t].loaded.status,
                                    ![t].loaded = Loaded(tasks'[t])]
          /\ hist' = [hist EXCEPT ![t].transitions =
                        Append(@, <<tasks[t].status, tasks'[t].status>>)]
       \/ /\ Raise(t)
          /\ UNCHANGED <<tasks, hist>>
    /\ UNCHANGED <<logs, sprintVars, analysis>>

\* log_task_event(old_status, task.status) after the refresh.
LogCompleted(t) ==
    /\ t \in TaskIds
    /\ procs[t].pc = "log_completed"
    /\ \/ /\ logs' = [logs EXCEPT ![t] =
                        Append(@, LogEntry(t, "status_change", procs[t].old_status,
                                           procs[t].loaded.status,
                                           procs[t].loaded.result_text))]
          /\ procs' = [procs EXCEPT ![t].pc = "done"]
       \/ /\ Raise(t)
          /\ UNCHANGED logs
    /\ UNCHANGED <<tasks, hist, sprintVars, analysis>>

BackgroundError ==
    <<"Background error: ",
      "run_ai_coo_logic() missing 1 required positional argument: 'metadata'">>

\* app/main.py, the worker's except branch: task.status = "failed"; ...;
\* db.commit(); db.refresh(task)
MarkFailed(t) ==
    /\ t \in TaskIds
    /\ procs[t].pc = "mark_failed"
    /\ \/ /\ tasks' = [tasks EXCEPT ![t].status = "failed",
                                    ![t].result_text = BackgroundError]
          /\ procs' = [procs EXCEPT ![t].pc = "log_error",
                                    ![t].old_status = tasks[t].status,
                                    ![t].loaded = Loaded(tasks'[t])]
          /\ hist' = [hist EXCEPT ![t].transitions =
                        Append(@, <<tasks[t].status, "failed">>)]
       \/ /\ Raise(t)
          /\ UNCHANGED <<tasks, hist>>
    /\ UNCHANGED <<logs, sprintVars, analysis>>

LogError(t) ==
    /\ t \in TaskIds
    /\ procs[t].pc = "log_error"
    /\ \/ /\ logs' = [logs EXCEPT ![t] =
                        Append(@, LogEntry(t, "error", procs[t].old_status,
                                           procs[t].loaded.status,
                                           procs[t].loaded.result_text))]
          /\ procs' = [procs EXCEPT ![t].pc = "done"]
       \/ /\ Raise(t)
          /\ UNCHANGED logs
    /\ UNCHANGED <<tasks, hist, sprintVars, analysis>>

RECURSIVE PatchesUpTo(_)

\* The PATCH requests served so far, over the first n tasks.
PatchesUpTo(n) == IF n = 0 THEN 0 ELSE hist[n].patches + PatchesUpTo(n - 1)

\* PATCH /tasks/{task_id}: whatever status the body names is stored.
update_task(t, update) ==
    /\ t \in TaskIds
    /\ PatchesUpTo(Len(hist)) < MaxPatches
    /\ tasks' = [tasks EXCEPT
                   ![t].status = IF update.status # NoStatus
                                 THEN update.status ELSE @,
                   ![t].result_text = IF update.result_text # NoText
                                      THEN update.result_text ELSE @]
    /\ hist' = [hist EXCEPT ![t].patches = @ + 1]
    /\ UNCHANGED <<logs, procs, sprintVars, analysis>>

----------------------------------------------------------------------------

----------------------------------------------------------------------------
(* The task risk profile (app/services/intelligence.py).                   *)
(* A float in [0, 1] is an integer number of 1/Unit; a value rounded to    *)
(* three places is an integer number of thousandths.  A text is kept as    *)
(* its number of whitespace-separated words.                               *)

MaxDepends == 7

MaxRelated == 9

Unit == 3000

NoOwner == ""

\* result_text is None
NoWords == -1

\* No analysis asked for.
NoAnalysis == [card |-> << >>]

\* A value under a metadata key: the key is absent, or it holds a number (in
\* thousandths), a string that is no number, or null.
Absent == [kind |-> "absent", value |-> 0]

Number(thousandths) == [kind |-> "number", value |-> thousandths]

PriorityMeta(impact, urgency, okr_alignment, user_importance) ==
    [impact |-> impact, urgency |-> urgency, okr_alignment |-> okr_alignment,
     user_importance |-> user_importance]

\* metadata_json without any of the four keys.
NoPriorityMeta == PriorityMeta(Absent, Absent, Absent, Absent)

\* A task given with the analysed one: a short title, nothing else set.
RelatedTask(owner_email, status) ==
    [status |-> status, owner_email |-> owner_email, depends_on |-> 0,
     title_words |-> 3, result_words |-> NoWords, metadata |-> NoPriorityMeta]

\* The tasks analysed: a title of 3, 19, 60 or 130 words, no result text or
\* one of 40 words, up to MaxDepends dependencies.
AnalysedTasks ==
    [status : {"pending", "in_progress", "completed"},
     owner_email : {NoOwner, "asha"},
     depends_on : 0..MaxDepends,
     title_words : {3, 19, 60, 130},
     result_words : {NoWords, 40},
     metadata : {NoPriorityMeta}]

\* The tasks given with it: active tasks of asha, then completed tasks of
\* asha, then active tasks of ben.
RelatedTasks(active, completed, others) ==
    [i \in 1..(active + completed + others) |->
        IF i <= active THEN RelatedTask("asha", "pending")
        ELSE IF i <= active + completed THEN RelatedTask("asha", "completed")
        ELSE RelatedTask("ben", "in_progress")]

\* round(num / den, 3) in thousandths: to the nearest, a tie to the even one.
Round3(num, den) ==
    LET twice == (2000 * num) \div den
        exact == (2000 * num) % den = 0
        down == twice \div 2
    IN  IF twice % 2 = 0 THEN down
        ELSE IF exact /\ down % 2 = 0 THEN down
        ELSE down + 1

\* len(f"{task.title} {task.result_text}".split()): None is printed as the
\* one word None.
TokenCount(task) ==
    task.title_words + (IF task.result_words = NoWords THEN 1 ELSE task.result_words)

estimate_complexity(task) == Min(Unit, (Unit * TokenCount(task)) \div 120)

StatusPenalty(status) ==
    IF status \in {"pending", "in_progress"} THEN (15 * Unit) \div 100
                                             ELSE (5 * Unit) \div 100

\* A faulty variant of risk_level with strict thresholds; C20 rejects it.
risk_level_above(score) ==
    IF score > 750 THEN "critical"
    ELSE IF score > 500 THEN "high"
    ELSE IF score > 250 THEN "medium"
    ELSE "low"

\* risk_level(score), the score in thousandths.
risk_level(score) ==
    IF score >= 750 THEN "critical"
    ELSE IF score >= 500 THEN "high"
    ELSE IF score >= 250 THEN "medium"
    ELSE "low"

\* predict_risk_profile(task, related_tasks), without the reasons.  The
\* divisions are exact for the inputs above.
predict_risk_profile(task, related_tasks) ==
    LET dependency_risk == Min(Unit, (task.depends_on * 15 * Unit) \div 100)
        active_by_owner ==
            SelectSeq(related_tasks,
                      LAMBDA t : t.owner_email = task.owner_email
                                 /\ t.status # "completed")
        overload_risk ==
            IF task.owner_email # NoOwner
            THEN Min(Unit, (Max(0, Len(active_by_owner) - 3) * 2 * Unit) \div 10)
            ELSE 0
        complexity == estimate_complexity(task)
        delay_probability ==
            Min(Unit, StatusPenalty(task.status) + dependency_risk + overload_risk
                      + (complexity * 4) \div 10)
    IN  [risk_score |-> Round3(delay_probability * 6 + overload_risk * 2
                               + dependency_risk * 2, 10 * Unit),
         delay_probability |-> Round3(delay_probability, Unit),
         dependency_risk |-> Round3(dependency_risk, Unit),
         overload_risk |-> Round3(overload_risk, Unit),
         complexity_estimate |-> Round3(complexity, Unit)]

\* evaluate_task_risk(task, tasks): the score, its level and the profile it
\* was taken from.
evaluate_task_risk(task, related_tasks) ==
    LET profile == predict_risk_profile(task, related_tasks)
    IN  [risk_score |-> profile.risk_score,
         risk_level |-> risk_level(profile.risk_score),
         profile |-> profile]

\* float(metadata.get(key, 0.5)), in thousandths; a string that is no number
\* raises ValueError and None raises TypeError.
FloatOf(v) ==
    CASE v.kind = "absent" -> [raised |-> "no", value |-> 500]
      [] v.kind = "number" -> [raised |-> "no", value |-> v.value]
      [] v.kind = "text" -> [raised |-> "ValueError", value |-> 0]
      [] v.kind = "null" -> [raised |-> "TypeError", value |-> 0]

\* classify_priority(task): the bucket, or the exception of the first float()
\* that raises.
classify_priority(task) ==
    LET impact == FloatOf(task.metadata.impact)
        urgency == FloatOf(task.metadata.urgency)
        okr_alignment == FloatOf(task.metadata.okr_alignment)
        user_importance == FloatOf(task.metadata.user_importance)
        \* the score in 1/100000
        score == Max(0, Min(100000,
                     30 * impact.value + 30 * urgency.value
                     + 20 * okr_alignment.value + 15 * user_importance.value
                     - 10000 * task.depends_on))
    IN  IF impact.raised # "no" THEN impact.raised
        ELSE IF urgency.raised # "no" THEN urgency.raised
        ELSE IF okr_alignment.raised # "no" THEN okr_alignment.raised
        ELSE IF user_importance.raised # "no" THEN user_importance.raised
        ELSE IF score >= 80000 THEN "CRITICAL"
        ELSE IF score >= 60000 THEN "HIGH"
        ELSE IF score >= 35000 THEN "MEDIUM"
        ELSE "LOW"

\* sorted(risk_cards, key=risk_score, reverse=True): a stable sort, so a card
\* goes behind the cards of the same score that came before it.
RECURSIVE SortedByRisk(_)
SortedByRisk(cards) ==
    IF Len(cards) = 0 THEN << >>
    ELSE LET card == cards[Len(cards)]
             sorted == SortedByRisk(SubSeq(cards, 1, Len(cards) - 1))
         IN  SelectSeq(sorted, LAMBDA c : c.risk_score >= card.risk_score)
             \o << card >>
             \o SelectSeq(sorted, LAMBDA c : c.risk_score < card.risk_score)

\* GET /intelligence/analysis by the owner of the analysed task, the tasks
\* table holding that task and then the tasks given with it: the user's
\* tasks are queried and each is evaluated against all of them.  A row of
\* the table has no depends_on attribute, which reads as none.  Of the
\* answer, tasks_analyzed and risk; an exception of classify_priority is the
\* request's.
get_intelligence_view ==
    /\ Len(analysis.card) = 0
    /\ analysis.task.owner_email # NoOwner
    /\ analysis.task.depends_on = 0
    /\ LET table == << analysis.task >> \o analysis.related
           user_tasks == SelectSeq(table,
                            LAMBDA t : t.owner_email = analysis.task.owner_email)
           evaluated(id) == evaluate_task_risk(user_tasks[id], user_tasks)
           risk_cards ==
               [id \in 1..Len(user_tasks) |->
                   [id |-> id, risk_score |-> evaluated(id).risk_score,
                    risk_level |-> evaluated(id).risk_level,
                    priority |-> classify_priority(user_tasks[id]),
                    status |-> user_tasks[id].status]]
           raised == \E id \in 1..Len(user_tasks) :
                        risk_cards[id].priority \in {"ValueError", "TypeError"}
       IN  analysis' = [analysis EXCEPT
                          !.related = user_tasks,
                          !.card = << evaluate_task_risk(user_tasks[1], user_tasks) >>,
                          !.view = IF raised THEN << [ok |-> FALSE] >>
                                   ELSE << [ok |-> TRUE,
                                            tasks_analyzed |-> Len(user_tasks),
                                            risk |-> SortedByRisk(risk_cards)] >>]
    /\ UNCHANGED <<sprintVars, taskVars>>

\* One call of classify_priority on the task drawn.
ClassifyPriority ==
    /\ Len(analysis.card) = 0
    /\ analysis' = [analysis EXCEPT
                      !.card = << [priority |-> classify_priority(analysis.task)] >>]
    /\ UNCHANGED <<sprintVars, taskVars>>

\* One call of evaluate_task_risk on the inputs drawn.
EvaluateTaskRisk ==
    /\ Len(analysis.card) = 0
    /\ analysis' = [analysis EXCEPT
                      !.card = << evaluate_task_risk(analysis.task, analysis.related) >>]
    /\ UNCHANGED <<sprintVars, taskVars>>

\* The same call after the tasks given with it have been reversed: the
\* profile reads their number, not their order.
EvaluateReversed ==
    /\ Len(analysis.card) = 0
    /\ LET n == Len(analysis.related)
           reversed == [i \in 1..n |-> analysis.related[n + 1 - i]]
       IN  analysis' = [analysis EXCEPT
                          !.related = reversed,
                          !.card = << evaluate_task_risk(analysis.task, reversed) >>]
    /\ UNCHANGED <<sprintVars, taskVars>>

SprintInit ==
    /\ now = 10
    /\ sprints = <<>>
    /\ issues = <<>>
    /\ response = NoResponse
    /\ sessions = [r \in Requests |-> NoSession]
    /\ acl = NoAcl

TaskInit ==
    /\ tasks = <<>>
    /\ logs = <<>>
    /\ procs = <<>>
    /\ hist = <<>>
    /\ analysis = NoAnalysis

Init == SprintInit /\ TaskInit

SprintNext ==
    \/ \E t \in Instants : AdvanceClock(t)
    \/ \E id \in SprintIds, p \in SprintPayloads : create_sprint(id, p)
    \/ \E id \in SprintIds, names \in JiraResults : import_jira_project(id, names)
    \/ \E id \in SprintIds, p \in IssuePayloads :
          /\ Len(issues) < MaxIssues
          /\ create_issue_for_sprint(id, p)
    \/ list_sprints
    \/ list_sprints_with_issues
    \/ \E id \in SprintIds : get_sprint(id)
    \/ \E id \in SprintIds : get_sprint_alerts(id)
    \/ \E id \in SprintIds : get_sprint_risk(id)
    \/ \E id \in SprintIds : get_sprint_insights(id)

TaskNext ==
    \/ \E app \in {"tasks", "main"}, p \in TaskPayloads : create_task(app, p)
    \/ \E h \in SyncHandlers, p \in TaskPayloads : run_task(h, p)
    \/ \E h \in AsyncHandlers, p \in TaskPayloads : run_task_async(h, p)
    \/ \E t \in TaskIds : MarkInProgress(t)
    \/ \E t \in TaskIds : LogInProgress(t)
    \/ \E t \in TaskIds, o \in ProviderOutcomes : CallLogic(t, o)
    \/ \E t \in TaskIds : MainCallLogic(t)
    \/ \E t \in TaskIds : Complete(t)
    \/ \E t \in TaskIds : LogCompleted(t)
    \/ \E t \in TaskIds : MarkFailed(t)
    \/ \E t \in TaskIds : LogError(t)
    \/ \E t \in TaskIds, u \in PatchBodies : update_task(t, u)

Next == SprintNext \/ TaskNext

\* The whole system, and its two halves on their own: no action of one half
\* reads or writes a variable of the other.
Spec == Init /\ [][Next]_vars

SprintSpec == Init /\ [][SprintNext]_vars

TaskSpec == Init /\ [][TaskNext]_vars

\* The sprint half on the alert scenarios: a sprint, its issues posted in
\* the order of AlertIssuePayloads while the clock advances, and the two
\* reads that answer alerts and insights.
AlertInit ==
    /\ now = 17
    /\ sprints = <<>>
    /\ issues = <<>>
    /\ response = NoResponse
    /\ sessions = [r \in Requests |-> NoSession]
    /\ acl = NoAcl
    /\ TaskInit

\* The position in AlertIssuePayloads of the body a row was posted with.
PayloadIndex(row) ==
    CHOOSE k \in 1..Len(AlertIssuePayloads) :
        /\ AlertIssuePayloads[k].status = row.status
        /\ AlertIssuePayloads[k].is_blocker = row.is_blocker
        /\ AlertIssuePayloads[k].assignee = row.assignee

AlertNext ==
    \/ \E t \in AlertInstants : AdvanceClock(t)
    \/ \E id \in SprintIds, p \in AlertSprintPayloads : create_sprint(id, p)
    \/ \E id \in SprintIds, k \in 1..Len(AlertIssuePayloads) :
          /\ Len(issues) < MaxIssues
          /\ Len(issues) > 0 => k >= PayloadIndex(issues[Len(issues)])
          /\ create_issue_for_sprint(id, AlertIssuePayloads[k])
    \/ \E id \in SprintIds : get_sprint_alerts(id)
    \/ \E id \in SprintIds : get_sprint_insights(id)

AlertSpec == AlertInit /\ [][AlertNext]_vars

\* Two concurrent GET /sprints/{id} over a sprint whose issues were posted
\* before the first of them began.
RaceNext ==
    \/ \E t \in RaceInstants : AdvanceClock(t)
    \/ \E id \in SprintIds, p \in RaceSprintPayloads : create_sprint(id, p)
    \/ \E id \in SprintIds, p \in RaceIssuePayloads :
          /\ Len(issues) < MaxIssues
          /\ \A r \in Requests : sessions[r].pc = "idle"
          /\ create_issue_for_sprint(id, p)
    \/ \E r \in Requests, id \in SprintIds : LoadSprint(r, id)
    \/ \E r \in Requests : ComputeRisk(r)
    \/ \E r \in Requests : CommitRisk(r)
    \/ \E r \in Requests : RefreshAndAnswer(r)

RaceSpec == Init /\ [][RaceNext]_vars

\* The endpoints asked by several users, one call after another.
AccessNext ==
    \/ \E u \in {"asha", "ben"}, id \in AccessSprintIds, p \in RaceSprintPayloads :
          create_sprint_as(u, id, p)
    \/ \E u \in Users, id \in AccessSprintIds, e \in {"ben", "chen"} :
          /\ Len(acl.collaborators) < MaxMembers
          /\ add_sprint_member(u, id, e)
    \/ \E u \in Users, id \in AccessSprintIds, e \in {"ben", "chen"} :
          remove_sprint_member(u, id, e)
    \/ \E u \in Users, id \in AccessSprintIds :
          /\ Len(issues) < MaxAccessIssues
          /\ create_issue_as(u, id, [status |-> "open", is_blocker |-> TRUE,
                                     assignee |-> NoAssignee])
    \/ \E n \in ReadEndpoints, u \in Users, id \in AccessSprintIds :
          read_sprint_as(n, u, id)

AccessSpec == Init /\ [][AccessNext]_vars

KeyNext ==
    \/ \E t \in RaceInstants : AdvanceClock(t)
    \/ \E id \in SprintIds, p \in RaceSprintPayloads : create_sprint(id, p)
    \/ \E r \in Requests, id \in SprintIds, p \in RaceIssuePayloads :
          /\ Len(issues) + Cardinality({ q \in Requests : sessions[q].pc # "idle" })
                < MaxIssues
          /\ CountIssues(r, id, p)
    \/ \E r \in Requests : ComputeRiskForCreate(r)
    \/ \E r \in Requests : CommitIssue(r)

KeySpec == Init /\ [][KeyNext]_vars

\* The risk profile as a function: a task and the tasks given with it are
\* drawn, and evaluate_task_risk is applied to them.
IntelInit ==
    /\ SprintInit
    /\ tasks = <<>>
    /\ logs = <<>>
    /\ procs = <<>>
    /\ hist = <<>>
    /\ analysis \in
          { [task |-> t, related |-> RelatedTasks(a, c, o), card |-> << >>,
             view |-> << >>] :
              t \in AnalysedTasks,
              a \in 0..MaxRelated,
              c \in 0..1,
              o \in 0..1 }

IntelNext == EvaluateTaskRisk \/ EvaluateReversed \/ get_intelligence_view

IntelSpec == IntelInit /\ [][IntelNext]_vars

\* classify_priority as a function: a task is drawn whose metadata holds,
\* under each of the four keys, nothing, 0.0, 0.9, a string that is no
\* number, or null.  With these numbers no score lies on a threshold, where
\* the floating-point sum could fall on its other side.
PriorityValues ==
    {Absent, Number(0), Number(900),
     [kind |-> "text", value |-> 0], [kind |-> "null", value |-> 0]}

PriorityInit ==
    /\ SprintInit
    /\ tasks = <<>>
    /\ logs = <<>>
    /\ procs = <<>>
    /\ hist = <<>>
    /\ analysis \in
          { [task |-> [depends_on |-> d,
                       metadata |-> PriorityMeta(i, u, o, ui)],
             card |-> << >>] :
              d \in 0..MaxDepends, i \in PriorityValues, u \in PriorityValues,
              o \in PriorityValues, ui \in PriorityValues }

PriorityNext == ClassifyPriority

PrioritySpec == PriorityInit /\ [][PriorityNext]_vars

----------------------------------------------------------------------------
(* Properties of the sprint half, checked under SprintSpec.                *)

C2_ScoreFormula ==
    \A id \in DOMAIN sprints :
        (/\ response.endpoint \in {"get_sprint", "get_sprint_alerts",
                                   "get_sprint_risk", "list_sprints_with_issues"}
         /\ id \in DOMAIN response.risks
         /\ Len(IssuesOf(id)) > 0)
        =>
        LET s == sprints[id]
            iss == IssuesOf(id)
            n == Len(iss)
            inc == Cardinality({k \in 1..n :
                       Lower(iss[k].status) \notin {"done", "resolved", "closed"}})
            blk == Cardinality({k \in 1..n : iss[k].is_blocker})
            span == (s.end_date - s.start_date) \div TicksPerDay
            total == IF span = 0 THEN 1 ELSE span
            left == (s.end_date - now) \div TicksPerDay
            \* days_progress = pn / pd with pd > 0, clamped to [0, 1]
            pd == IF total < 0 THEN -total ELSE total
            pn == IF total < 0 THEN -(total - left) ELSE total - left
            cn == IF pn < 0 THEN 0 ELSE IF pn > pd THEN pd ELSE pn
            den == 10 * n * pd
            num == 6 * inc * pd + 3 * cn * n + blk * n * pd
            clamped == IF num < 0 THEN 0 ELSE IF num > den THEN den ELSE num
        IN  /\ s.risk_score * den = Scale * clamped
            /\ response.risks[id].risk_score = s.risk_score
            /\ (/\ s.start_date = 0
                /\ s.end_date = 10 * TicksPerDay
                /\ now = 5 * TicksPerDay
                /\ n = 4
                /\ inc = 4
                /\ blk = 1)
               => (100 * s.risk_score = 85 * Scale /\ s.risk_level = "high")

\* C2's case: the scenario itself, answered by GET /sprints/risk/{id}, and a
\* finished blocker that counts.
C2_Witness ==
    \E id \in DOMAIN sprints :
        /\ response.endpoint = "get_sprint_risk"
        /\ sprints[id].start_date = 0
        /\ sprints[id].end_date = 10 * TicksPerDay
        /\ now = 5 * TicksPerDay
        /\ Len(IssuesOf(id)) = 4
        /\ \A k \in 1..4 : IssuesOf(id)[k].status = "open"
        /\ Cardinality({k \in 1..4 : IssuesOf(id)[k].is_blocker}) = 1
        /\ 100 * sprints[id].risk_score = 85 * Scale

\* C3: for a sprint with zero issues, whatever its dates,
\* compute_risk_for_sprint stores risk_score 0.0, risk_level "low" and the
\* evaluation time as last_evaluated_at.
C3_EmptySprint ==
    \A id \in DOMAIN sprints :
        (/\ response.endpoint \in {"get_sprint", "get_sprint_alerts",
                                   "get_sprint_risk", "list_sprints_with_issues"}
         /\ id \in DOMAIN response.risks
         /\ Len(IssuesOf(id)) = 0)
        =>
        /\ sprints[id].risk_score = 0
        /\ sprints[id].risk_level = "low"
        /\ sprints[id].last_evaluated_at = now
        /\ response.risks[id] = [risk_score |-> 0, risk_level |-> "low"]

\* C3's case: an empty sprint whose end precedes its start, evaluated later
\* than it was created.
C3_Witness ==
    \E id \in DOMAIN sprints :
        /\ response.endpoint = "get_sprint_alerts"
        /\ Len(IssuesOf(id)) = 0
        /\ sprints[id].end_date < sprints[id].start_date
        /\ now > 0
        /\ sprints[id].last_evaluated_at = now

\* C8: every response that exposes a sprint's risk_score or risk_level
\* (GET /sprints/, /sprints/with_issues, /sprints/{id}, /sprints/{id}/alerts,
\* /sprints/risk/{id}, and the risk_level that /sprints/{id}/insights
\* consults) carries the values compute_risk_for_sprint gives over the
\* sprint's current issues at request time.
C8_FreshRiskOnEveryRead ==
    \A id \in DOMAIN sprints :
        (response.endpoint # "none" /\ id \in DOMAIN response.risks)
        =>
        LET fresh == compute_risk_for_sprint(sprints[id], IssuesOf(id), now)
        IN  /\ response.risks[id].risk_level = fresh.risk_level
            /\ response.endpoint # "get_sprint_insights"
               => response.risks[id].risk_score = fresh.risk_score

----------------------------------------------------------------------------
(* Properties of the task half, checked under TaskSpec.                    *)

\* C4: when the provider call fails while run_task, run_task_debug or
\* process_task_in_background of app/routers/tasks.py runs a task, the
\* handler's completion stores status completed (and the task is never
\* failed), external_provider_status is the fallback status that
\* run_ai_coo_logic returned, and result_text is the local fallback plan,
\* which is not empty and contains the task title.  (The status is compared
\* while no PATCH has overwritten it.)
C4_FallbackStillCompletes ==
    \A t \in TaskIds :
        procs[t].handler \in {"tasks.run_task", "tasks.run_task_async"}
        =>
        /\ tasks[t].status # "failed"
        /\ (/\ hist[t].calls = 1
            /\ hist[t].outcomes[1].raised
            /\ Len(hist[t].transitions) = 2)
           =>
           /\ hist[t].patches = 0 => tasks[t].status = "completed"
           /\ tasks[t].external_provider_status = procs[t].result.provider_status
           /\ tasks[t].external_provider_status
                  \in {"fallback_insufficient_quota", "fallback_error"}
           /\ tasks[t].result_text
                  = build_local_fallback_plan(tasks[t].title, tasks[t].metadata)
           /\ tasks[t].result_text # <<>>
           /\ ContainsText(tasks[t].result_text, tasks[t].title)

\* C4's case: the background worker has finished a task whose provider call
\* raised a 429 error.
C4_Witness ==
    \E t \in TaskIds :
        /\ procs[t].handler = "tasks.run_task_async"
        /\ procs[t].pc = "done"
        /\ hist[t].outcomes[1].raised
        /\ Contains(hist[t].outcomes[1].text, "429")
        /\ tasks[t].status = "completed"
        /\ tasks[t].external_provider_status = "fallback_insufficient_quota"
        /\ ContainsText(tasks[t].result_text, tasks[t].title)

\* C5, as the code has it: run_ai_coo_logic calls the provider once and
\* always returns; it returns "ok" iff the call returned a reply whose content
\* is a text; if the call raised and the error text contains
\* "insufficient_quota" or "429" it returns "fallback_insufficient_quota"; for
\* every other error, a reply without content among them, it returns
\* "fallback_error"; in both fallback cases the returned text is
\* build_local_fallback_plan(title, metadata).
C5_OneCallClassified ==
    [][\A t \in 1..Len(hist) :
          hist'[t].calls # hist[t].calls
          =>
          LET o == hist'[t].outcomes[Len(hist'[t].outcomes)]
              r == procs'[t].result
              quota == \E n \in 1..Len(o.text) :
                           o.text[n] \in {"insufficient_quota", "429"}
          IN  /\ hist[t].calls = 0
              /\ hist'[t].calls = 1
              /\ Len(hist'[t].outcomes) = 1
              /\ procs'[t].pc = "complete"
              /\ (r.provider_status = "ok") <=> (~o.raised /\ o.has_content)
              /\ (o.raised /\ quota)
                 => r.provider_status = "fallback_insufficient_quota"
              /\ (o.raised /\ ~quota) => r.provider_status = "fallback_error"
              /\ (~o.raised /\ ~o.has_content) => r.provider_status = "fallback_error"
              /\ r.provider_status # "ok"
                 => r.result_text
                        = build_local_fallback_plan(tasks[t].title, tasks[t].metadata)
      ]_vars

\* C5's case: the call returned a reply without content and the function
\* answered with the fallback plan and "fallback_error".
C5_Witness ==
    \E t \in TaskIds :
        /\ hist[t].calls = 1
        /\ ~hist[t].outcomes[1].raised
        /\ ~hist[t].outcomes[1].has_content
        /\ procs[t].result.provider_status = "fallback_error"
        /\ procs[t].result.result_text # <<>>

\* C5 as stated: run_ai_coo_logic returns "ok" iff the provider call
\* succeeded, that is, iff it did not raise.
C5_OkIffCallSucceeded ==
    \A t \in TaskIds :
        hist[t].calls = 1
        => ((procs[t].result.provider_status = "ok") <=> ~hist[t].outcomes[1].raised)

\* C6: while no PATCH request has touched a task, each change of its status
\* is one of pending -> in_progress, in_progress -> completed,
\* in_progress -> failed, and a task starts as pending.
C6_StatusMachine ==
    [][/\ \A t \in 1..Len(tasks) :
             (hist'[t].patches = 0 /\ tasks'[t].status # tasks[t].status)
             => <<tasks[t].status, tasks'[t].status>>
                    \in { <<"pending", "in_progress">>,
                          <<"in_progress", "completed">>,
                          <<"in_progress", "failed">> }
       /\ Len(tasks') > Len(tasks) => tasks'[Len(tasks')].status = "pending"
      ]_vars

\* C6's case: a task that no PATCH touched has gone from pending through
\* in_progress to failed.
C6_Witness ==
    \E t \in TaskIds :
        /\ hist[t].patches = 0
        /\ tasks[t].status = "failed"
        /\ hist[t].transitions
               = << <<"pending", "in_progress">>, <<"in_progress", "failed">> >>

\* C7: every task handed to process_task_in_background reaches completed or
\* failed, also when a step outside the provider call raises.  Once the
\* worker has returned or an exception has left it, nothing runs the task
\* again, so the claim requires that a worker that has ended leaves its
\* task completed or failed.
C7_WorkerEndsCompletedOrFailed ==
    \A t \in TaskIds :
        (/\ procs[t].handler \in {"tasks.run_task_async", "main.run_task_async"}
         /\ procs[t].pc \in {"done", "raised"}
         /\ hist[t].patches = 0)
        => tasks[t].status \in {"completed", "failed"}

\* C9: after any sequence of requests every stored task's status is one of
\* pending, in_progress, completed, failed.
C9_StatusInEnum ==
    \A t \in TaskIds :
        tasks[t].status \in {"pending", "in_progress", "completed", "failed"}

\* C10, as the code has it: for a task that no PATCH request has touched,
\* the task's log entries other than "created" are, in order, the
\* orchestrator's status changes, each with the status just before and just
\* after; only the latest change can lack its entry, and none does once the
\* handler has run to its end; every entry's old_status is the entry before's
\* new_status; and the provider is only called after the entry for the
\* change to in_progress is written.
C10_LogFollowsTransitions ==
    \A t \in TaskIds :
        hist[t].patches = 0
        =>
        LET entries == SelectSeq(logs[t], LAMBDA e : e.event # "created")
            changes == hist[t].transitions
        IN  /\ Len(entries) <= Len(changes)
            /\ Len(changes) <= Len(entries) + 1
            /\ \A k \in 1..Len(entries) :
                   /\ entries[k].old_status = changes[k][1]
                   /\ entries[k].new_status = changes[k][2]
            /\ procs[t].pc = "done" => Len(entries) = Len(changes)
            /\ \A k \in 2..Len(logs[t]) :
                   logs[t][k].old_status = logs[t][k - 1].new_status
            /\ hist[t].calls > 0
               => (Len(entries) >= 1 /\ entries[1].new_status = "in_progress")

\* C10's case: POST /tasks/run has run to its end: created, in_progress and
\* completed are logged in that order and the provider was called in between.
C10_Witness ==
    \E t \in TaskIds :
        /\ procs[t].handler = "tasks.run_task"
        /\ procs[t].pc = "done"
        /\ hist[t].patches = 0
        /\ hist[t].calls = 1
        /\ Len(logs[t]) = 3
        /\ logs[t][1].event = "created"
        /\ logs[t][2].new_status = "in_progress"
        /\ logs[t][3].old_status = "in_progress"
        /\ logs[t][3].new_status = "completed"

\* C10 as stated: for every task, each logged status change carries the
\* status just before and just after the change it records, and every
\* entry's old_status is the entry before's new_status.
C10_LogChain ==
    \A t \in TaskIds :
        LET entries == SelectSeq(logs[t], LAMBDA e : e.event # "created")
            changes == hist[t].transitions
        IN  /\ \A k \in 1..Len(entries) :
                   k <= Len(changes)
                   => /\ entries[k].old_status = changes[k][1]
                      /\ entries[k].new_status = changes[k][2]
            /\ \A k \in 2..Len(logs[t]) :
                   logs[t][k].old_status = logs[t][k - 1].new_status

----------------------------------------------------------------------------
(* Further properties of the sprint half, checked under SprintSpec.        *)

\* C11: for every sprint, also one whose end_date equals or precedes its
\* start_date, the total_days that compute_risk_for_sprint divides by is at
\* least 1.
C11_TotalDaysAtLeastOne ==
    \A id \in DOMAIN sprints :
        LET span == (sprints[id].end_date - sprints[id].start_date) \div TicksPerDay
        IN  TotalDays(sprints[id]) >= 1 /\ (span <= 0 => TotalDays(sprints[id]) = 1)

\* C12: computing the risk again, with the same dates, issues and evaluation
\* time, gives the same risk_score and risk_level, and the result does not
\* depend on the risk_score, risk_level or last_evaluated_at stored before.
C12_RecomputeIdempotent ==
    \A id \in DOMAIN sprints :
        (/\ response.endpoint \in {"get_sprint", "get_sprint_alerts",
                                   "get_sprint_risk", "list_sprints_with_issues"}
         /\ id \in DOMAIN response.risks)
        =>
        LET once == sprints[id]
            again == compute_risk_for_sprint(once, IssuesOf(id), now)
        IN  /\ again.risk_score = once.risk_score
            /\ again.risk_level = once.risk_level
            /\ \A before \in { [risk_score |-> 0, risk_level |-> "low"],
                               [risk_score |-> Scale \div 2, risk_level |-> "medium"],
                               [risk_score |-> Scale, risk_level |-> "high"] },
                  stamp \in Instants :
                   LET other == compute_risk_for_sprint(
                                    [once EXCEPT !.risk_score = before.risk_score,
                                                 !.risk_level = before.risk_level,
                                                 !.last_evaluated_at = stamp],
                                    IssuesOf(id), now)
                   IN  /\ other.risk_score = once.risk_score
                       /\ other.risk_level = once.risk_level

\* C12's case: a recomputation has stored a medium risk, below the highest
\* value a row can hold and above the lowest.
C12_Witness ==
    \E id \in DOMAIN sprints :
        /\ response.endpoint = "list_sprints_with_issues"
        /\ Len(IssuesOf(id)) > 0
        /\ sprints[id].risk_level = "medium"
        /\ sprints[id].last_evaluated_at = now

\* C18: GET /sprints/{id}/insights, and build_sprint_insights in it, leave
\* the sprint's stored risk_score, risk_level and last_evaluated_at and all
\* issues as they were.
C18_InsightsWriteNothing ==
    [][response'.endpoint = "get_sprint_insights"
       => (sprints' = sprints /\ issues' = issues)]_vars

\* C18's case: the insights were answered for a sprint whose stored risk
\* fields a recomputation would have changed.
C18_Witness ==
    \E id \in DOMAIN sprints :
        /\ response.endpoint = "get_sprint_insights"
        /\ Len(IssuesOf(id)) > 0
        /\ Recomputed(id).risk_score # sprints[id].risk_score
        /\ sprints[id].last_evaluated_at # now

----------------------------------------------------------------------------
(* Properties of the alerts and insights, checked under AlertSpec.  Each   *)
(* is about the answer of GET /sprints/{id}/alerts or .../insights and the *)
(* state it was computed from: no step but another read keeps the answer.  *)

\* C14: the alerts hold exactly one risk alert when the sprint's risk_level
\* is high (critical) or medium (warning), and none when it is low.
C14_OneRiskAlert ==
    \A id \in DOMAIN sprints :
        (response.endpoint = "get_sprint_alerts" /\ id \in DOMAIN response.risks)
        =>
        LET risk == SelectSeq(response.alerts, LAMBDA a : a.type = "risk")
            level == sprints[id].risk_level
        IN  /\ level = "high" => (Len(risk) = 1 /\ risk[1].level = "critical")
            /\ level = "medium" => (Len(risk) = 1 /\ risk[1].level = "warning")
            /\ level = "low" => Len(risk) = 0
            /\ level \in {"high", "medium", "low"}

\* C14's case: alerts answered for a medium-risk sprint.
C14_Witness ==
    \E id \in DOMAIN sprints :
        /\ response.endpoint = "get_sprint_alerts"
        /\ sprints[id].risk_level = "medium"
        /\ \E k \in 1..Len(response.alerts) :
              response.alerts[k].type = "risk" /\ response.alerts[k].level = "warning"

C16_DeadlineAlert ==
    \A id \in DOMAIN sprints :
        (response.endpoint = "get_sprint_alerts" /\ id \in DOMAIN response.risks)
        =>
        LET iss == IssuesOf(id)
            left == sprints[id].end_date - now
            days_left == CHOOSE d \in -30..30 :
                            d * TicksPerDay <= left /\ left < (d + 1) * TicksPerDay
            anyOpen == \E n \in 1..Len(iss) :
                          Lower(iss[n].status) \notin {"done", "resolved", "closed"}
            deadline == SelectSeq(response.alerts, LAMBDA a : a.type = "deadline")
            has(level) == \E k \in 1..Len(deadline) : deadline[k].level = level
        IN  /\ Len(deadline) <= 1
            /\ has("warning") <=> (0 <= days_left /\ days_left <= 2 /\ anyOpen)
            /\ has("critical") <=> (days_left < 0 /\ anyOpen)
            /\ \A k \in 1..Len(deadline) : deadline[k].level \in {"warning", "critical"}

\* C16's case: a warning answered with two and a half days left, which is
\* days_left = 2.
C16_Witness ==
    \E id \in DOMAIN sprints :
        /\ response.endpoint = "get_sprint_alerts"
        /\ 2 * (sprints[id].end_date - now) = 5 * TicksPerDay
        /\ \E k \in 1..Len(response.alerts) :
              response.alerts[k].type = "deadline" /\ response.alerts[k].level = "warning"

\* C17: the alerts hold exactly one assignee alert, of level info, for each
\* distinct assignee with 4 or more open issues in the sprint and none for
\* an assignee with 3 or fewer; finished issues and issues without an
\* assignee count for nobody.
C17_OverloadedAssignees ==
    \A id \in DOMAIN sprints :
        (response.endpoint = "get_sprint_alerts" /\ id \in DOMAIN response.risks)
        =>
        LET iss == IssuesOf(id)
            alerts == response.alerts
            names == {iss[n].assignee : n \in 1..Len(iss)} \ {NoAssignee}
            load(a) == Cardinality({n \in 1..Len(iss) :
                          /\ iss[n].assignee = a
                          /\ Lower(iss[n].status) \notin {"done", "resolved", "closed"}})
            about(a) == {k \in 1..Len(alerts) :
                            alerts[k].type = "assignee" /\ alerts[k].assignee = a}
        IN  /\ \A a \in names :
                  Cardinality(about(a)) = (IF load(a) >= 4 THEN 1 ELSE 0)
            /\ \A k \in 1..Len(alerts) :
                  alerts[k].type = "assignee"
                  => (alerts[k].level = "info" /\ alerts[k].assignee \in names)

\* C17's case: an assignee alert answered for an assignee with exactly four
\* open issues.
C17_Witness ==
    \E id \in DOMAIN sprints :
        /\ response.endpoint = "get_sprint_alerts"
        /\ \E k \in 1..Len(response.alerts) :
              /\ response.alerts[k].type = "assignee"
              /\ Cardinality({n \in 1..Len(IssuesOf(id)) :
                    /\ IssuesOf(id)[n].assignee = response.alerts[k].assignee
                    /\ IssuesOf(id)[n].status = "open"}) = 4

\* C19: the scorer, the alert generator and the insights classify an issue
\* as complete iff its lower-cased status is done, resolved or closed; so
\* the snapshot's tasks_completed is the number of issues minus the number
\* the scorer counts as incomplete.
C19_SameCompletionEverywhere ==
    \A id \in DOMAIN sprints :
        (response.endpoint = "get_sprint_insights" /\ id \in DOMAIN response.risks)
        =>
        LET iss == IssuesOf(id)
        IN  /\ \A n \in 1..Len(iss) :
                  LET complete == Lower(iss[n].status) \in {"done", "resolved", "closed"}
                  IN  /\ IsIncomplete(iss[n]) <=> ~complete
                      /\ AlertOpen(iss[n]) <=> ~complete
                      /\ InsightDone(iss[n]) <=> complete
            /\ response.insights.tasks_completed = Len(iss) - Len(Incomplete(iss))

----------------------------------------------------------------------------
(* The concurrent recomputations, checked under RaceSpec.                  *)

\* C13: when two requests have recomputed the risk of the same sprint over
\* the same issues and at evaluation times the scorer does not tell apart,
\* then whatever the order of their loads, writes and commits, the stored
\* risk_score and risk_level are the scorer's value for these issues, the
\* level is the bucket of the score, and last_evaluated_at is the evaluation
\* time of one of the two.
C13_RaceKeepsScorersValue ==
    \A id \in DOMAIN sprints :
        (/\ \A r \in Requests : sessions[r].pc \in {"committed", "done"}
         /\ \A r \in Requests : sessions[r].id = id
         /\ \A r, q \in Requests :
               (sprints[id].end_date - sessions[r].at) \div TicksPerDay
                 = (sprints[id].end_date - sessions[q].at) \div TicksPerDay)
        =>
        /\ \A r \in Requests :
              LET scored == compute_risk_for_sprint(sprints[id], IssuesOf(id),
                                                    sessions[r].at)
              IN  /\ sprints[id].risk_score = scored.risk_score
                  /\ sprints[id].risk_level = scored.risk_level
        /\ sprints[id].risk_level = RiskLevelOf(sprints[id].risk_score)
        /\ \E r \in Requests : sprints[id].last_evaluated_at = sessions[r].at

\* C13's case: both requests loaded the stale row, the one that evaluated
\* later committed first, and the stored risk is no longer the stale one.
C13_Witness ==
    \E id \in DOMAIN sprints, r, q \in Requests :
        /\ sessions[r].pc = "done" /\ sessions[q].pc = "done"
        /\ sessions[r].id = id /\ sessions[q].id = id
        /\ sessions[r].loaded = sessions[q].loaded
        /\ sessions[r].loaded.risk_level = "low"
        /\ sessions[r].at < sessions[q].at
        /\ (sprints[id].end_date - sessions[r].at) \div TicksPerDay
             = (sprints[id].end_date - sessions[q].at) \div TicksPerDay
        /\ sprints[id].last_evaluated_at = sessions[r].at
        /\ sprints[id].risk_level = "high"

----------------------------------------------------------------------------
(* The task risk profile, checked under IntelSpec.                         *)

\* C20: for every task and related tasks, delay_probability is
\* min(1, status_penalty + dependency_risk + overload_risk + 0.4 * complexity)
\* with status_penalty 0.15 for pending and in_progress and 0.05 otherwise,
\* risk_score is 0.6 * delay_probability + 0.2 * overload_risk
\* + 0.2 * dependency_risk rounded to three places and lies in [0, 1], and
\* the level is critical from 0.75, high from 0.5, medium from 0.25, else low.
\* (In 1/6000: penalty 900 or 300, a dependency 900, an active task beyond
\* three 1200, a word 50.)
C20_RiskProfile ==
    Len(analysis.card) = 1
    =>
    LET task == analysis.task
        card == analysis.card[1]
        related == analysis.related
        cap(x) == IF x > 6000 THEN 6000 ELSE x
        words == task.title_words
                 + (IF task.result_words = NoWords THEN 1 ELSE task.result_words)
        active == Cardinality({i \in 1..Len(related) :
                      /\ related[i].owner_email = task.owner_email
                      /\ related[i].status # "completed"})
        penalty == IF task.status = "pending" \/ task.status = "in_progress"
                   THEN 900 ELSE 300
        dependency == cap(900 * task.depends_on)
        overload == IF task.owner_email = NoOwner \/ active <= 3 THEN 0
                    ELSE cap(1200 * (active - 3))
        complexity == cap(50 * words)
        \* delay_probability, in 1/30000
        delay == IF 5 * (penalty + dependency + overload) + 2 * complexity > 30000
                 THEN 30000
                 ELSE 5 * (penalty + dependency + overload) + 2 * complexity
        \* the unrounded score, in 1/150000
        raw == 3 * delay + 5 * overload + 5 * dependency
        score == card.risk_score
    IN  /\ 2 * (150 * score - raw) <= 150
        /\ 2 * (raw - 150 * score) <= 150
        /\ 2 * (30 * card.profile.delay_probability - delay) <= 30
        /\ 2 * (delay - 30 * card.profile.delay_probability) <= 30
        /\ score >= 0
        /\ score <= 1000
        /\ card.risk_level = "critical" <=> score >= 750
        /\ card.risk_level = "high" <=> (score >= 500 /\ score < 750)
        /\ card.risk_level = "medium" <=> (score >= 250 /\ score < 500)
        /\ card.risk_level = "low" <=> score < 250

\* C20's case: a task scored exactly 0.25, which is medium.
C20_Witness ==
    /\ Len(analysis.card) = 1
    /\ analysis.card[1].risk_score = 250
    /\ analysis.card[1].risk_level = "medium"
    /\ analysis.task.depends_on > 0

\* C21: when GET /intelligence/analysis evaluates a task whose owner has
\* exactly 5 other tasks that are not completed, the task's overload_risk is
\* 0.4, the task itself not counting, and its risk_score is the one the
\* profile gives with that overload.
C21_OwnTaskNotCounted ==
    (Len(analysis.card) = 1 /\ Len(analysis.view) = 1)
    =>
    LET task == analysis.task
        card == analysis.card[1]
        others == Tail(analysis.related)
        active == Cardinality({i \in 1..Len(others) :
                      /\ others[i].owner_email = task.owner_email
                      /\ others[i].status # "completed"})
        cap(x) == IF x > 6000 THEN 6000 ELSE x
        words == task.title_words
                 + (IF task.result_words = NoWords THEN 1 ELSE task.result_words)
        penalty == IF task.status \in {"pending", "in_progress"} THEN 900 ELSE 300
        dependency == cap(900 * task.depends_on)
        delay == IF 5 * (penalty + dependency + 2400) + 2 * cap(50 * words) > 30000
                 THEN 30000
                 ELSE 5 * (penalty + dependency + 2400) + 2 * cap(50 * words)
        raw == 3 * delay + 5 * 2400 + 5 * dependency
    IN  active = 5
        => /\ card.profile.overload_risk = 400
           /\ 2 * (150 * card.risk_score - raw) <= 150
           /\ 2 * (raw - 150 * card.risk_score) <= 150

----------------------------------------------------------------------------
(* classify_priority, checked under PrioritySpec.                          *)

\* C22: classify_priority never raises and always returns CRITICAL, HIGH,
\* MEDIUM or LOW: a key that is absent, or holds a string that is no number
\* or null, counts as 0.5.
C22_PriorityNeverRaises ==
    Len(analysis.card) = 1
    =>
    LET m == analysis.task.metadata
        half(v) == IF v.kind = "number" THEN v ELSE Number(500)
        halved == [analysis.task EXCEPT
                     !.metadata = PriorityMeta(half(m.impact), half(m.urgency),
                                               half(m.okr_alignment),
                                               half(m.user_importance))]
        priority == analysis.card[1].priority
    IN  /\ priority \in {"CRITICAL", "HIGH", "MEDIUM", "LOW"}
        /\ priority = classify_priority(halved)

----------------------------------------------------------------------------
(* The next steps of a task: services/task_logic.py, applied by             *)
(* routers/tasks.py.  A text is the sequence of its characters, so that a   *)
(* keyword occurs in it as "kw in text" finds it: anywhere, inside a word   *)
(* or across two.                                                          *)

\* The number of rows of the tasks table.
MaxTable == 2

\* str.lower() on the letters.
LowerText(text) ==
    LET Lowered ==
            [A |-> "a", B |-> "b", C |-> "c", D |-> "d", E |-> "e", F |-> "f", G |-> "g", H |-> "h", I |-> "i", J |-> "j", K |-> "k", L |-> "l", M |-> "m", N |-> "n", O |-> "o", P |-> "p", Q |-> "q", R |-> "r", S |-> "s", T |-> "t", U |-> "u", V |-> "v", W |-> "w", X |-> "x", Y |-> "y", Z |-> "z"]
    IN  [i \in 1..Len(text) |->
            IF text[i] \in DOMAIN Lowered THEN Lowered[text[i]] ELSE text[i]]

\* kw in text
Occurs(kw, text) ==
    \E i \in 1..(Len(text) - Len(kw) + 1) : SubSeq(text, i, i + Len(kw) - 1) = kw

DesignKeywords ==
    { << "p", "r", "d" >>,
      << "s", "p", "e", "c" >>,
      << "d", "e", "s", "i", "g", "n" >>,
      << "r", "e", "q", "u", "i", "r", "e", "m", "e", "n", "t", "s" >>,
      << "a", "r", "c", "h", "i", "t", "e", "c", "t", "u", "r", "e" >> }

BuildKeywords ==
    { << "i", "m", "p", "l", "e", "m", "e", "n", "t" >>,
      << "d", "e", "v", "e", "l", "o", "p" >>,
      << "b", "u", "i", "l", "d" >>,
      << "c", "o", "d", "e" >>,
      << "i", "n", "t", "e", "g", "r", "a", "t", "i", "o", "n" >> }

TestKeywords ==
    { << "t", "e", "s", "t" >>,
      << "q", "a" >>,
      << "v", "a", "l", "i", "d", "a", "t", "e" >>,
      << "b", "u", "g" >>,
      << "r", "e", "g", "r", "e", "s", "s", "i", "o", "n" >> }

LaunchKeywords ==
    { << "d", "e", "p", "l", "o", "y" >>,
      << "r", "e", "l", "e", "a", "s", "e" >>,
      << "l", "a", "u", "n", "c", "h" >>,
      << "r", "o", "l", "l", "o", "u", "t" >>,
      << "g", "o", " ", "l", "i", "v", "e" >> }

ProjectKeywords ==
    { << "b", "i", "g", "b", "a", "s", "k", "e", "t" >>,
      << "b", "r", "o", "w", "s", "e", "r", "s", "t", "a", "c", "k" >>,
      << "f", "i", "n", "a", "n", "c", "e" >>,
      << "i", "n", "v", "e", "n", "t", "o", "r", "y" >>,
      << "s", "t", "o", "c", "k" >> }

\* PHASE_ORDER.get(phase, 0)
PHASE_ORDER(phase) ==
    CASE phase = "design" -> 1
      [] phase = "build" -> 2
      [] phase = "test" -> 3
      [] phase = "launch" -> 4
      [] OTHER -> 0

AnyOccurs(keywords, text) == \E k \in keywords : Occurs(k, text)

\* detect_phase with the test keywords looked at first.
detect_phase_test_first(text) ==
    LET lowered == LowerText(text)
    IN  IF AnyOccurs(TestKeywords, lowered) THEN "test"
        ELSE IF AnyOccurs(DesignKeywords, lowered) THEN "design"
        ELSE IF AnyOccurs(BuildKeywords, lowered) THEN "build"
        ELSE IF AnyOccurs(LaunchKeywords, lowered) THEN "launch"
        ELSE "unknown"

detect_phase(text) ==
    LET lowered == LowerText(text)
    IN  IF AnyOccurs(DesignKeywords, lowered) THEN "design"
        ELSE IF AnyOccurs(BuildKeywords, lowered) THEN "build"
        ELSE IF AnyOccurs(TestKeywords, lowered) THEN "test"
        ELSE IF AnyOccurs(LaunchKeywords, lowered) THEN "launch"
        ELSE "unknown"

\* f"{task.title or ''} {getattr(task, 'result_text', '')}".lower(); a
\* result_text of None reads "None".
TextOf(task) ==
    LowerText(task.title \o << " " >>
              \o (IF task.result_text = NoText THEN << "N", "o", "n", "e" >>
                  ELSE task.result_text))

same_project(this_text, other_text) ==
    \E kw \in ProjectKeywords : Occurs(kw, this_text) /\ Occurs(kw, other_text)

\* The tasks after which this one comes: depends_on_ids.
depends_on_ids(table, id) ==
    LET this_text == TextOf(table[id])
        this_phase_order == PHASE_ORDER(detect_phase(this_text))
    IN  { other \in DOMAIN table \ {id} :
            LET other_text == TextOf(table[other])
                other_phase_order == PHASE_ORDER(detect_phase(other_text))
            IN  /\ same_project(this_text, other_text)
                /\ this_phase_order > other_phase_order
                /\ other_phase_order > 0 }

\* blocks_ids with an unknown phase taken for the earliest phase.
blocks_ids_unknown_first(table, id) ==
    LET this_text == TextOf(table[id])
        this_phase_order == PHASE_ORDER(detect_phase(this_text))
    IN  { other \in DOMAIN table \ {id} :
            LET other_text == TextOf(table[other])
                other_phase_order == PHASE_ORDER(detect_phase(other_text))
            IN  /\ same_project(this_text, other_text)
                /\ this_phase_order < other_phase_order }

\* The tasks that come after this one: blocks_ids.
blocks_ids(table, id) ==
    LET this_text == TextOf(table[id])
        this_phase_order == PHASE_ORDER(detect_phase(this_text))
    IN  { other \in DOMAIN table \ {id} :
            LET other_text == TextOf(table[other])
                other_phase_order == PHASE_ORDER(detect_phase(other_text))
            IN  /\ same_project(this_text, other_text)
                /\ this_phase_order < other_phase_order
                /\ this_phase_order > 0 }

\* A line of the text; ids stands for "#i, #j" over sorted(set(ids)).
Line(text, ids) == [text |-> text, ids |-> ids]

DependsLine ==
    "This task cannot be completed until the following tasks are finished"

BlocksLine ==
    "This task must be finished before the following tasks can be completed"

NoRelationLine ==
    "This task has no obvious prerequisite or blocking tasks based on current data."

OperationalLine(this_phase) ==
    CASE this_phase = "design" ->
           "Operational next steps: finalize requirements, get stakeholder sign-off, then hand over to engineering."
      [] this_phase = "build" ->
           "Operational next steps: confirm design/PRD is approved, break work into subtasks, and start implementation."
      [] this_phase = "test" ->
           "Operational next steps: coordinate with engineering, run test cases, capture bugs, and verify fixes."
      [] this_phase = "launch" ->
           "Operational next steps: verify testing is complete, align on rollout plan, and monitor after deployment."
      [] OTHER ->
           "Operational next steps: clarify owner, deadline, and success criteria for this task."

\* analyze_task_relationships(db, new_task), the task being row id of the
\* table: the lines of the text returned.
analyze_task_relationships(table, id) ==
    LET depends == depends_on_ids(table, id)
        blocks == blocks_ids(table, id)
    IN  (IF depends # {} THEN << Line(DependsLine, depends) >> ELSE << >>)
        \o (IF blocks # {} THEN << Line(BlocksLine, blocks) >> ELSE << >>)
        \o (IF depends = {} /\ blocks = {}
            THEN << Line(NoRelationLine, {}) >> ELSE << >>)
        \o << Line(OperationalLine(detect_phase(TextOf(table[id]))), {}) >>

\* The body run for one task: its next_steps, and the result text
\* "AI-COO processed task: " and the title if it has none.
WithNextSteps(table, id) ==
    [table EXCEPT
       ![id].next_steps = analyze_task_relationships(table, id),
       ![id].result_text =
           IF table[id].result_text = NoText
           THEN << "A", "I", "-", "C", "O", "O", " ", "p", "r", "o", "c", "e", "s", "s", "e", "d", " ", "t", "a", "s", "k", ":", " " >>
                \o table[id].title
           ELSE table[id].result_text]

\* POST /tasks/recompute_next_steps: every task of the table in turn, each
\* seeing the rows as the tasks before it left them.
RECURSIVE RecomputedFrom(_, _)
RecomputedFrom(table, id) ==
    IF id > Len(table) THEN table
    ELSE RecomputedFrom(WithNextSteps(table, id), id + 1)

\* The titles drawn: "Finance spec test", "Build finance API", "QA stock",
\* "Finance go", "Latest stock", "KPI analysis".
StepTitles ==
    { << "F", "i", "n", "a", "n", "c", "e", " ", "s", "p", "e", "c", " ", "t", "e", "s", "t" >>,
      << "B", "u", "i", "l", "d", " ", "f", "i", "n", "a", "n", "c", "e", " ", "A", "P", "I" >>,
      << "Q", "A", " ", "s", "t", "o", "c", "k" >>,
      << "F", "i", "n", "a", "n", "c", "e", " ", "g", "o" >>,
      << "L", "a", "t", "e", "s", "t", " ", "s", "t", "o", "c", "k" >>,
      << "K", "P", "I", " ", "a", "n", "a", "l", "y", "s", "i", "s" >> }

NoPrerequisite == 0

\* The rows drawn: a title, no result text or "live", status pending; the
\* first row may declare the second its prerequisite, and the second row is
\* pending or completed.
StepRows(n) ==
    [title : StepTitles,
     result_text : {NoText, << "l", "i", "v", "e" >>},
     status : IF n = 2 THEN {"pending", "completed"} ELSE {"pending"},
     prerequisite_task_id : IF n = 1 THEN {NoPrerequisite, 2} ELSE {NoPrerequisite},
     next_steps : {<< >>}]

StepTables ==
    UNION { { table \in [1..n -> UNION { StepRows(i) : i \in 1..n }] :
                /\ \A i \in 1..n : table[i] \in StepRows(i)
                /\ table[1].prerequisite_task_id \in {NoPrerequisite} \cup (2..n) } :
            n \in 1..MaxTable }

Call(op, id, phase) == << [op |-> op, id |-> id, phase |-> phase] >>

\* One call of detect_phase on the title of a row.
DetectPhase(id) ==
    /\ analysis.card = << >>
    /\ analysis' = [analysis EXCEPT
                      !.card = Call("detect_phase", id,
                                    detect_phase(analysis.table[id].title))]
    /\ UNCHANGED <<sprintVars, taskVars>>

\* apply_relationships_and_next_steps(db, task) on a row of the table.
ApplyNextSteps(id) ==
    /\ analysis.card = << >>
    /\ analysis' = [analysis EXCEPT
                      !.table = WithNextSteps(analysis.table, id),
                      !.card = Call("apply_relationships_and_next_steps", id, "")]
    /\ UNCHANGED <<sprintVars, taskVars>>

\* POST /tasks/recompute_next_steps
recompute_next_steps ==
    /\ analysis.card = << >>
    /\ analysis' = [analysis EXCEPT
                      !.table = RecomputedFrom(analysis.table, 1),
                      !.card = Call("recompute_next_steps", 0, "")]
    /\ UNCHANGED <<sprintVars, taskVars>>

StepsInit ==
    /\ SprintInit
    /\ tasks = <<>>
    /\ logs = <<>>
    /\ procs = <<>>
    /\ hist = <<>>
    /\ analysis \in { [table |-> table, card |-> << >>] : table \in StepTables }

StepsNext ==
    \/ \E id \in DOMAIN analysis.table : DetectPhase(id)
    \/ \E id \in DOMAIN analysis.table : ApplyNextSteps(id)
    \/ recompute_next_steps

StepsSpec == StepsInit /\ [][StepsNext]_vars

\* C25: detect_phase returns the first of design, build, test, launch one of
\* whose keywords occurs in the lower-cased text, and unknown when none does:
\* a text with "spec" in it is design whatever else it holds, and the result
\* is one of the five values.
C25_PhaseByFirstKeywordSet ==
    (analysis.card # << >> /\ analysis.card[1].op = "detect_phase")
    =>
    LET text == LowerText(analysis.table[analysis.card[1].id].title)
        phase == analysis.card[1].phase
        keywords == << DesignKeywords, BuildKeywords, TestKeywords, LaunchKeywords >>
        names == << "design", "build", "test", "launch" >>
        hits == { n \in 1..4 : \E kw \in keywords[n] : Occurs(kw, text) }
    IN  /\ phase \in {"design", "build", "test", "launch", "unknown"}
        /\ hits = {} => phase = "unknown"
        /\ hits # {} => \E n \in hits : /\ \A m \in hits : n <= m
                                         /\ phase = names[n]
        /\ Occurs(<< "s", "p", "e", "c" >>, text) => phase = "design"

\* detect_phase has answered design for a title holding both "spec" and
\* "test".
C25_Witness ==
    /\ analysis.card # << >>
    /\ analysis.card[1].op = "detect_phase"
    /\ analysis.card[1].phase = "design"
    /\ Occurs(<< "s", "p", "e", "c" >>,
              LowerText(analysis.table[analysis.card[1].id].title))
    /\ Occurs(<< "t", "e", "s", "t" >>,
              LowerText(analysis.table[analysis.card[1].id].title))

\* C30: once the next steps of every task of a table are derived, for two
\* distinct tasks A and B, B is among the tasks A cannot be completed before
\* iff A is among the tasks B must be finished before, and no task is on both
\* lists of one task.
C30_DependsIffBlocks ==
    (analysis.card # << >> /\ analysis.card[1].op = "recompute_next_steps")
    =>
    LET table == analysis.table
        listed(a, text) ==
            UNION { table[a].next_steps[i].ids :
                      i \in { j \in DOMAIN table[a].next_steps :
                                table[a].next_steps[j].text = text } }
    IN  \A a \in DOMAIN table :
           /\ listed(a, DependsLine) \cap listed(a, BlocksLine) = {}
           /\ \A b \in DOMAIN table \ {a} :
                 b \in listed(a, DependsLine) <=> a \in listed(b, BlocksLine)

\* The next steps of a table are derived and one task depends on another.
C30_Witness ==
    /\ analysis.card # << >>
    /\ analysis.card[1].op = "recompute_next_steps"
    /\ \E a \in DOMAIN analysis.table :
          \E i \in DOMAIN analysis.table[a].next_steps :
             /\ analysis.table[a].next_steps[i].text = DependsLine
             /\ analysis.table[a].next_steps[i].ids # {}

\* C23: the next steps derived for a task hold a "blocked by prerequisite"
\* line iff the task declares a prerequisite whose status is neither done nor
\* completed, and otherwise state that nothing blocks the task.
C23_BlockedByPrerequisite ==
    (analysis.card # << >>
       /\ analysis.card[1].op = "apply_relationships_and_next_steps")
    =>
    LET task == analysis.table[analysis.card[1].id]
        texts == { task.next_steps[i].text : i \in DOMAIN task.next_steps }
        blocked ==
            /\ task.prerequisite_task_id # NoPrerequisite
            /\ analysis.table[task.prerequisite_task_id].status
                  \notin {"done", "completed"}
    IN  /\ blocked <=> "blocked by prerequisite" \in texts
        /\ ~blocked => ({"no blocking prerequisites", NoRelationLine} \cap texts # {})

\* C24: the next steps derived for a task hold exactly one operational line:
\* the prerequisite text when an incomplete prerequisite blocks the task,
\* else the KPI text when the task's text holds both "kpi" and "analysis",
\* else the line of the detected phase, the clarifying one for unknown.
C24_OperationalLineByFirstRule ==
    (analysis.card # << >>
       /\ analysis.card[1].op = "apply_relationships_and_next_steps")
    =>
    LET task == analysis.table[analysis.card[1].id]
        blocked ==
            /\ task.prerequisite_task_id # NoPrerequisite
            /\ analysis.table[task.prerequisite_task_id].status
                  \notin {"done", "completed"}
        text == LowerText(task.title)
        kpi_analysis ==
            /\ Occurs(<< "k", "p", "i" >>, text)
            /\ Occurs(<< "a", "n", "a", "l", "y", "s", "i", "s" >>, text)
        expected ==
            IF blocked THEN "assign owner and complete prerequisite"
            ELSE IF kpi_analysis THEN "attach KPI data and begin analysis"
            ELSE OperationalLine(detect_phase(TextOf(task)))
        relation == {DependsLine, BlocksLine, NoRelationLine}
        operational == { i \in DOMAIN task.next_steps :
                           task.next_steps[i].text \notin relation }
    IN  /\ Cardinality(operational) = 1
        /\ \A i \in operational : task.next_steps[i].text = expected

----------------------------------------------------------------------------
(* The risk stored by POST /sprints/{id}/issues, checked under SprintSpec.  *)

\* C26: a step of POST /sprints/{id}/issues leaves the sprint's stored
\* risk_score and risk_level equal to compute_risk_for_sprint over the
\* sprint's issues with the new issue among them.
C26_RiskCoversNewIssue ==
    [][\A id \in SprintIds :
          (/\ id \in DOMAIN sprints
           /\ DOMAIN sprints' = DOMAIN sprints
           /\ Len(issues') = Len(issues) + 1
           /\ issues'[Len(issues')].sprint_id = id)
          =>
          LET fresh == compute_risk_for_sprint(sprints'[id], IssuesOf(id)', now')
          IN  /\ sprints'[id].risk_score = fresh.risk_score
              /\ sprints'[id].risk_level = fresh.risk_level]_vars

----------------------------------------------------------------------------
(* The keys of concurrently created issues, checked under KeySpec.         *)

\* C28: no two issues of one sprint created by POST /sprints/{id}/issues
\* have the same key SPR-<sprint_id>-<n>, however the steps of concurrent
\* requests interleave.
C28_KeysUnique ==
    \A i, j \in DOMAIN issues :
        (i # j /\ issues[i].sprint_id = issues[j].sprint_id
           /\ issues[i].key[1] = "SPR" /\ issues[j].key[1] = "SPR")
        => issues[i].key # issues[j].key

----------------------------------------------------------------------------
(* The synchronous handlers of app/main.py, checked under TaskSpec.  POST   *)
(* /tasks/run and POST /tasks/run_debug of app/main.py run the same steps   *)
(* and differ in the shape of the answer only; "main.run_task" is both.     *)

\* C27: a POST /tasks/run or /tasks/run_debug request of app/main.py that
\* has ended has returned, and it leaves its task completed with a plan as
\* result_text: it never ends by an exception and never leaves the task
\* in_progress.  (Compared while no PATCH has overwritten the task.)
C27_MainRunEndsCompleted ==
    \A t \in TaskIds :
        (/\ procs[t].handler = "main.run_task"
         /\ procs[t].pc \in {"done", "raised"}
         /\ hist[t].patches = 0)
        => /\ procs[t].pc = "done"
           /\ tasks[t].status = "completed"
           /\ tasks[t].result_text # NoText

----------------------------------------------------------------------------
(* Who may do what with a sprint, checked under AccessSpec.                *)

\* C29: after any calls that add and remove members, a read of a sprint's
\* issues, members, details, alerts, risk report or insights is answered iff
\* the user is the sprint's owner or one of its collaborators at that time,
\* and with 404 otherwise; an issue is created and a member added or removed
\* for the owner only; and a member whose removal was answered is no
\* collaborator any more.
C29_OwnerOrCollaboratorOnly ==
    response.endpoint # "none"
    =>
    LET user == response.user
        id == response.id
        owner == id \in DOMAIN sprints /\ acl.owner[id] = user
        member(email) ==
            \E k \in DOMAIN acl.collaborators :
                acl.collaborators[k] = [sprint_id |-> id, email |-> email]
    IN  /\ response.endpoint \in ReadEndpoints
           => /\ response.status \in {200, 404}
              /\ response.status = 200 <=> (owner \/ member(user))
        /\ response.endpoint \in {"create_issue_for_sprint", "add_sprint_member",
                                  "remove_sprint_member"}
           => /\ response.status # 404 => owner
              /\ ~owner => response.status = 404
        /\ (response.endpoint = "add_sprint_member" /\ response.status = 200)
           => member(response.email)
        /\ (response.endpoint = "remove_sprint_member" /\ response.status = 204)
           => ~member(response.email)

\* A collaborator who is not the owner has read a sprint, while another
\* sprint exists of which that user is neither.
C29_Witness ==
    /\ response.endpoint \in ReadEndpoints
    /\ response.status = 200
    /\ acl.owner[response.id] # response.user
    /\ \E other \in DOMAIN sprints \ {response.id} :
          /\ acl.owner[other] # response.user
          /\ \A k \in DOMAIN acl.collaborators :
                acl.collaborators[k].sprint_id # other

====
